---- MODULE Spec2Model ----
(***************************************************************************)
(* A model of the odis formal-concept-analysis library: the FormalContext  *)
(* data structure with its mutators, the NextClosure and FCbO concept      *)
(* enumerators, the lectic sort, the canonical (Duquenne-Guigues) basis    *)
(* in its stock and optimised form, the attribute exploration loop, the    *)
(* Burmeister parser, and implication_closure and next_preclosure on       *)
(* arbitrary implication lists.                                            *)
(*                                                                         *)
(* Index sets are 0-based as in the source; a Vec v is a sequence whose    *)
(* element v[i] of the source is At(v, i).  BitSet, BTreeSet and HashSet   *)
(* values are sets.  Option values are NONE or Some(x).                    *)
(***************************************************************************)
EXTENDS Integers, Sequences, FiniteSets, TLC

\* Bounds of the model.
MaxObjects == 2        \* largest |G| the mutator model builds
MaxAttributes == 2     \* largest |M| the mutator model builds
EnumObjects == 3       \* largest |G| of the contexts handed to the enumerators
EnumAttributes == 3    \* largest |M| of the contexts handed to the enumerators
BasisObjects == 3      \* largest |G| of the contexts handed to the basis functions
BasisAttributes == 3   \* largest |M| of the contexts handed to the basis functions
ExploreObjects == 2    \* largest |G| of the contexts attribute exploration starts from
ExploreAttributes == 2 \* largest |M| of the contexts attribute exploration runs on
MaxQuestions == 4      \* implications put to the oracle before the model stops asking
ClosureAttributes == 2 \* largest |M| of the implication lists closed
MaxImplications == 2   \* largest length of the implication lists closed
NeighborObjects == 3   \* largest |G| of the contexts handed to upper_neighbor
NeighborAttributes == 3 \* largest |M| of the contexts handed to upper_neighbor
IterObjects == 2       \* largest |G| of the contexts whose iterators are driven to the end
IterAttributes == 3    \* largest |M| of the contexts whose iterators are driven to the end
MaxEnds == 3           \* most calls of next() answered with None that the driver makes
GraphObjects == 3      \* largest |G| of the contexts whose lattice is drawn
GraphAttributes == 3   \* largest |M| of the contexts whose lattice is drawn
ParseObjects == 2      \* largest object count of the Burmeister files parsed
ParseAttributes == 2   \* largest attribute count of the Burmeister files parsed

Names == {"a", "b"}

VARIABLES
    context,   \* the FormalContext<T> under work
    pc,        \* position of the driver of the specification at hand
    nc,        \* state captured by the closure of next_closure::concepts
    fcbo,      \* state captured by the closure of fcbo::fcbo_concepts
    sorted,    \* the concept list handed to sort_lectic_order
    cb,        \* locals of canonical_basis
    cbo,       \* locals of canonical_basis_optimised
    ae,        \* locals of attribute_exploration and its oracle
    parse,     \* input and locals of FormalContext::from
    cl,        \* arguments and results of implication_closure and next_preclosure
    un,        \* argument and result of upper_neighbor
    graph      \* locals of Graph::from_concepts

vars == <<context, pc, nc, fcbo, sorted, cb, cbo, ae, parse, cl, un, graph>>

----------------------------------------------------------------------------
\* Vec, Option and set helpers

At(v, i) == v[i + 1]

RemoveAt(v, i) == SubSeq(v, 1, i) \o SubSeq(v, i + 2, Len(v))

Range(n) == 0 .. (n - 1)

NONE == [tag |-> "None"]

Some(x) == [tag |-> "Some", val |-> x]

IsSome(o) == o.tag = "Some"

Unwrap(o) == o.val

\* The value a step leaves behind when the source panics (unwrap on None,
\* index out of bounds, arithmetic overflow in a build that checks it).
PANIC == [tag |-> "Panic"]

\* The return value of a closure that has not been called yet.
NotCalled == [tag |-> "NotCalled"]

Min(S) == CHOOSE x \in S : \A y \in S : x <= y

Max(S) == CHOOSE x \in S : \A y \in S : x >= y

----------------------------------------------------------------------------
\* FormalContext (data_structures/formal_context.rs)

\* FormalContext::construct: A and D are populated by one pass over incidence.
construct(objects, attributes, incidence) ==
    [ objects |-> objects,
      attributes |-> attributes,
      incidence |-> incidence,
      atomic_object_derivations |->
          [g1 \in 1 .. Len(objects) |-> {p[2] : p \in {q \in incidence : q[1] = g1 - 1}}],
      atomic_attribute_derivations |->
          [m1 \in 1 .. Len(attributes) |-> {p[1] : p \in {q \in incidence : q[2] = m1 - 1}}] ]

\* FormalContext::new
new == construct(<<>>, <<>>, {})

NumObjects(c) == Len(c.objects)

NumAttributes(c) == Len(c.attributes)

\* Intersection of the atomic derivations named by S, folded as the source
\* folds it: clone the first, intersect_with the rest.
RECURSIVE IntersectAll(_, _, _)
IntersectAll(atomic, S, acc) ==
    IF S = {} THEN acc
    ELSE LET n == Min(S) IN IntersectAll(atomic, S \ {n}, acc \cap At(atomic, n))

index_attribute_derivation(c, attributes) ==
    IF Cardinality(attributes) = 0 THEN Range(NumObjects(c))
    ELSE IF Cardinality(attributes) = 1
         THEN At(c.atomic_attribute_derivations, Min(attributes))
         ELSE LET first == Min(attributes)
              IN IntersectAll(c.atomic_attribute_derivations, attributes \ {first},
                              At(c.atomic_attribute_derivations, first))

\* index_object_derivation with the arm "0 =>" yielding the empty set.
index_object_derivation_empty_is_empty(c, objects) ==
    IF Cardinality(objects) = 0 THEN {}
    ELSE IF Cardinality(objects) = 1
         THEN At(c.atomic_object_derivations, Min(objects))
         ELSE LET first == Min(objects)
              IN IntersectAll(c.atomic_object_derivations, objects \ {first},
                              At(c.atomic_object_derivations, first))

index_object_derivation(c, objects) ==
    IF Cardinality(objects) = 0 THEN Range(NumAttributes(c))
    ELSE IF Cardinality(objects) = 1
         THEN At(c.atomic_object_derivations, Min(objects))
         ELSE LET first == Min(objects)
              IN IntersectAll(c.atomic_object_derivations, objects \ {first},
                              At(c.atomic_object_derivations, first))

index_attribute_hull(c, attributes) ==
    index_object_derivation(c, index_attribute_derivation(c, attributes))

index_object_hull(c, objects) ==
    index_attribute_derivation(c, index_object_derivation(c, objects))

\* add_object without the insert into atomic_attribute_derivations.
add_object_skips_attribute_derivations(c, new_object, attributes) ==
    LET object_index == Len(c.objects)
    IN [ objects |-> Append(c.objects, new_object),
         attributes |-> c.attributes,
         incidence |-> c.incidence \cup {<<object_index, attribute>> : attribute \in attributes},
         atomic_object_derivations |-> Append(c.atomic_object_derivations, attributes),
         atomic_attribute_derivations |-> c.atomic_attribute_derivations ]

\* FormalContext::add_object
add_object(c, new_object, attributes) ==
    LET object_index == Len(c.objects)      \* self.objects.len() - 1 after the push
    IN [ objects |-> Append(c.objects, new_object),
         attributes |-> c.attributes,
         incidence |-> c.incidence \cup {<<object_index, attribute>> : attribute \in attributes},
         atomic_object_derivations |-> Append(c.atomic_object_derivations, attributes),
         atomic_attribute_derivations |->
             [m1 \in 1 .. Len(c.atomic_attribute_derivations) |->
                 IF (m1 - 1) \in attributes
                 THEN c.atomic_attribute_derivations[m1] \cup {object_index}
                 ELSE c.atomic_attribute_derivations[m1]] ]

\* FormalContext::add_attribute.  The pair inserted into incidence is
\* (attribute_index, object), as written in the source.
add_attribute(c, new_attribute, objects) ==
    LET attribute_index == Len(c.attributes)
    IN [ objects |-> c.objects,
         attributes |-> Append(c.attributes, new_attribute),
         incidence |-> c.incidence \cup {<<attribute_index, object>> : object \in objects},
         atomic_object_derivations |->
             [g1 \in 1 .. Len(c.atomic_object_derivations) |->
                 IF (g1 - 1) \in objects
                 THEN c.atomic_object_derivations[g1] \cup {attribute_index}
                 ELSE c.atomic_object_derivations[g1]],
         atomic_attribute_derivations |-> Append(c.atomic_attribute_derivations, objects) ]

\* The map of the two removers without the decrement.
ShiftDown_keeps(x, index) == x

\* The map |x| if x > index { x - 1 } else { x } of the two removers.
ShiftDown(x, index) == IF x > index THEN x - 1 ELSE x

\* FormalContext::remove_object
remove_object(c, index) ==
    LET removed == c.incidence \ {<<index, n>> : n \in Range(NumAttributes(c))}
    IN [ objects |-> RemoveAt(c.objects, index),
         attributes |-> c.attributes,
         incidence |-> {<<ShiftDown(x[1], index), x[2]>> : x \in removed},
         atomic_object_derivations |-> RemoveAt(c.atomic_object_derivations, index),
         atomic_attribute_derivations |->
             [m1 \in 1 .. Len(c.atomic_attribute_derivations) |->
                 {ShiftDown(x, index) : x \in c.atomic_attribute_derivations[m1] \ {index}}] ]

\* FormalContext::remove_attribute
remove_attribute(c, index) ==
    LET removed == c.incidence \ {<<n, index>> : n \in Range(NumObjects(c))}
    IN [ objects |-> c.objects,
         attributes |-> RemoveAt(c.attributes, index),
         incidence |-> {<<x[1], ShiftDown(x[2], index)>> : x \in removed},
         atomic_object_derivations |->
             [g1 \in 1 .. Len(c.atomic_object_derivations) |->
                 {ShiftDown(x, index) : x \in c.atomic_object_derivations[g1] \ {index}}],
         atomic_attribute_derivations |-> RemoveAt(c.atomic_attribute_derivations, index) ]

\* FormalContext::change_object_name
change_object_name(c, name, index) ==
    [c EXCEPT !.objects = [c.objects EXCEPT ![index + 1] = name]]

\* FormalContext::change_attribute_name
change_attribute_name(c, name, index) ==
    [c EXCEPT !.attributes = [c.attributes EXCEPT ![index + 1] = name]]

----------------------------------------------------------------------------
\* The mutator model: any sequence of public mutators, in-range arguments,
\* applied to FormalContext::new().

Idle == [tag |-> "Idle"]

\* pc records the call the driver made last: its name, its index or name
\* argument and its set argument.
Called(op, arg, set) == [op |-> op, arg |-> arg, set |-> set]

InitContext ==
    /\ context = new
    /\ pc = Called("new", "", {})
    /\ nc = Idle /\ fcbo = Idle /\ sorted = Idle
    /\ cb = Idle /\ cbo = Idle /\ ae = Idle /\ parse = Idle /\ cl = Idle /\ un = Idle /\ graph = Idle

OthersUnchanged == UNCHANGED <<nc, fcbo, sorted, cb, cbo, ae, parse, cl, un, graph>>

AddObject ==
    /\ NumObjects(context) < MaxObjects
    /\ \E t \in Names, Y \in SUBSET Range(NumAttributes(context)) :
           /\ context' = add_object(context, t, Y)
           /\ pc' = Called("add_object", t, Y)
    /\ OthersUnchanged

AddAttribute ==
    /\ NumAttributes(context) < MaxAttributes
    /\ \E t \in Names, X \in SUBSET Range(NumObjects(context)) :
           /\ context' = add_attribute(context, t, X)
           /\ pc' = Called("add_attribute", t, X)
    /\ OthersUnchanged

RemoveObject ==
    /\ \E i \in Range(NumObjects(context)) :
           /\ context' = remove_object(context, i)
           /\ pc' = Called("remove_object", i, {})
    /\ OthersUnchanged

RemoveAttribute ==
    /\ \E i \in Range(NumAttributes(context)) :
           /\ context' = remove_attribute(context, i)
           /\ pc' = Called("remove_attribute", i, {})
    /\ OthersUnchanged

ChangeObjectName ==
    /\ \E i \in Range(NumObjects(context)), t \in Names :
           /\ context' = change_object_name(context, t, i)
           /\ pc' = Called("change_object_name", i, {})
    /\ OthersUnchanged

ChangeAttributeName ==
    /\ \E i \in Range(NumAttributes(context)), t \in Names :
           /\ context' = change_attribute_name(context, t, i)
           /\ pc' = Called("change_attribute_name", i, {})
    /\ OthersUnchanged

NextContext ==
    \/ AddObject
    \/ AddAttribute
    \/ RemoveObject
    \/ RemoveAttribute
    \/ ChangeObjectName
    \/ ChangeAttributeName

SpecContext == InitContext /\ [][NextContext]_vars

\* The three incidence stores describe one relation over [0,|G|) x [0,|M|).
StoresAgree(c) ==
    /\ \A g \in Range(NumObjects(c)), m \in Range(NumAttributes(c)) :
          /\ (<<g, m>> \in c.incidence) <=> (m \in At(c.atomic_object_derivations, g))
          /\ (m \in At(c.atomic_object_derivations, g))
                <=> (g \in At(c.atomic_attribute_derivations, m))
    /\ c.incidence \subseteq (Range(NumObjects(c)) \X Range(NumAttributes(c)))

\* C1: after any finite sequence of in-range public mutators applied to a
\* constructed context, (g,m) is in incidence iff m is in
\* atomic_object_derivations[g] iff g is in atomic_attribute_derivations[m],
\* and incidence holds no pair outside [0,|G|) x [0,|M|).
C1_IncidenceStoresAgree == StoresAgree(context)

----------------------------------------------------------------------------
\* NextClosure (algorithms/next_closure.rs)

\* The for loop of next_concept.  rest holds what a_iter has not yet yielded
\* (a is walked in descending order), a_next is its head.
RECURSIVE next_concept_loop(_, _, _, _)
next_concept_loop(c, a_new, rest, i) ==
    IF i < 0 THEN NONE
    ELSE LET a_next == IF rest = {} THEN NONE ELSE Some(Max(rest))
         IN IF Some(i) = a_next
            THEN next_concept_loop(c, a_new \ {i}, rest \ {i}, i - 1)
            ELSE LET gs == index_attribute_derivation(c, a_new \cup {i})
                     b == index_object_derivation(c, gs)
                     d == b \ a_new
                 IN IF d = {} THEN PANIC
                    ELSE IF Min(d) >= i THEN Some(<<gs, b>>)
                    ELSE next_concept_loop(c, a_new, rest, i - 1)

\* A next_concept whose loop starts one attribute too low.
next_concept_skips_last(c, a) == next_concept_loop(c, a, a, NumAttributes(c) - 2)

next_concept(c, a) == next_concept_loop(c, a, a, NumAttributes(c) - 1)

\* A concepts() that seeds the enumeration with (G, {}) instead of the
\* closure of the empty set.
concepts_seeds_empty(c) ==
    [ next |-> Some(<<Range(NumObjects(c)), {}>>), emitted |-> <<>>, returned |-> NotCalled ]

\* The state captured by the closure returned by concepts(): next, plus what
\* the consumer has seen: the items returned so far and the last return value.
concepts(c) ==
    LET gs == index_attribute_derivation(c, {})
        ms == index_object_derivation(c, gs)
    IN [ next |-> Some(<<gs, ms>>), emitted |-> <<>>, returned |-> NotCalled ]

\* One call of the closure of concepts().
concepts_next(c, st) ==
    IF IsSome(st.next)
    THEN LET gm == Unwrap(st.next)
         IN [ next |-> next_concept(c, gm[2]),
              emitted |-> Append(st.emitted, gm),
              returned |-> Some(gm) ]
    ELSE IF st.next = NONE THEN [st EXCEPT !.returned = NONE]
    ELSE st

----------------------------------------------------------------------------
\* FCbO (algorithms/fcbo.rs)

\* smaller_subsets[i] = (0..i)
smaller_subsets(c) == [i1 \in 1 .. NumAttributes(c) |-> Range(i1 - 1)]

\* A first canonicity test that forgets to restrict both sides to the
\* attributes below inner_index.
canonicity_test_one_unmasked(subsets, inner_index, input_attributes, dead_end_attributes_set) ==
    dead_end_attributes_set[inner_index] \subseteq input_attributes

canonicity_test_one(subsets, inner_index, input_attributes, dead_end_attributes_set) ==
    (dead_end_attributes_set[inner_index] \cap At(subsets, inner_index))
        \subseteq (input_attributes \cap At(subsets, inner_index))

canonicity_test_two(subsets, inner_index, input_attributes, next_attributes) ==
    (input_attributes \cap At(subsets, inner_index))
        = (next_attributes \cap At(subsets, inner_index))

\* fcbo_next_concept: the for loop from j on.
RECURSIVE fcbo_next_concept(_, _, _, _, _)
fcbo_next_concept(c, subsets, input_attributes, j, dead_end_attributes_set) ==
    IF j >= NumAttributes(c) THEN [type |-> "NodeCleared"]
    ELSE IF j \in input_attributes
    THEN fcbo_next_concept(c, subsets, input_attributes, j + 1, dead_end_attributes_set)
    ELSE IF j \notin DOMAIN dead_end_attributes_set
    THEN [type |-> "Panic"]      \* dead_end_attributes_set.get(&inner_index).unwrap()
    ELSE IF canonicity_test_one(subsets, j, input_attributes, dead_end_attributes_set)
    THEN LET next_objects == index_attribute_derivation(c, input_attributes)
                                 \cap index_attribute_derivation(c, {j})
             next_attributes == index_object_derivation(c, next_objects)
         IN IF canonicity_test_two(subsets, j, input_attributes, next_attributes)
            THEN [type |-> "CallingContext",
                  concept |-> <<next_objects, next_attributes>>, index |-> j]
            ELSE [type |-> "DeadEndAttributes", attrs |-> next_attributes, index |-> j]
    ELSE fcbo_next_concept(c, subsets, input_attributes, j + 1, dead_end_attributes_set)

\* CallingContext::new
CallingContext(input_attr, inner_index) ==
    [input_attr |-> input_attr, inner_index |-> inner_index, dead_end_attr |-> NONE]

\* The state captured by the closure returned by fcbo_concepts().
fcbo_concepts(c) ==
    LET starting_objects == index_attribute_derivation(c, {})
    IN [ starting_objects |-> starting_objects,
         input_attributes |-> index_object_derivation(c, starting_objects),
         inner_index |-> 0,
         dead_end_attr_set |-> [i \in Range(NumAttributes(c)) |-> {}],
         queue |-> <<>>,
         branches |-> 0,
         first_concept |-> TRUE,
         emitted |-> <<>>,
         returned |-> NotCalled ]

\* The output of fcbo_next_concept in the closure's current state.
FcboOutput(c, st) ==
    fcbo_next_concept(c, smaller_subsets(c), st.input_attributes, st.inner_index,
                      st.dead_end_attr_set)

\* if first_concept { ... return Some(..) }
fcbo_first(st) ==
    LET concept == <<st.starting_objects, st.input_attributes>>
    IN [st EXCEPT !.first_concept = FALSE,
                  !.emitted = Append(@, concept),
                  !.returned = Some(concept)]

\* match arm 1: OutputType::CallingContext
fcbo_calling_context(c, st, out) ==
    LET attr_length == NumAttributes(c)
        inner_index == out.index + 1
        push == out.concept[2] # Range(attr_length) /\ out.index < attr_length - 1
    IN [st EXCEPT !.inner_index = inner_index,
                  !.branches = IF push THEN @ + 1 ELSE @,
                  !.queue = IF push
                            THEN Append(@, CallingContext(out.concept[2], inner_index))
                            ELSE @,
                  !.emitted = Append(@, out.concept),
                  !.returned = Some(out.concept)]

\* match arm 2: OutputType::DeadEndAttributes (HashMap::insert adds or replaces)
fcbo_dead_end(st, out) ==
    [st EXCEPT !.dead_end_attr_set =
                   [k \in (DOMAIN @) \cup {out.index} |->
                       IF k = out.index THEN out.attrs ELSE @[k]],
               !.inner_index = out.index + 1]

\* A NodeCleared arm that removes the slots 0..=inner_index of the first
\* branch from the dead-end map instead of 0..inner_index.
fcbo_node_cleared_removes_inner_index(st) ==
    LET len == Len(st.queue)
        first == len - st.branches
        truncated ==
            IF st.branches # 0
            THEN [k \in {j \in DOMAIN st.dead_end_attr_set :
                           j > At(st.queue, first).inner_index} |->
                     st.dead_end_attr_set[k]]
            ELSE st.dead_end_attr_set
        queue1 ==
            IF st.branches # 0
            THEN [i1 \in 1 .. len |->
                     IF i1 - 1 >= first
                     THEN [st.queue[i1] EXCEPT !.dead_end_attr = Some(truncated)]
                     ELSE st.queue[i1]]
            ELSE st.queue
        state == Head(queue1)
    IN IF st.branches > len \/ ~IsSome(state.dead_end_attr)
       THEN [st EXCEPT !.returned = PANIC]
       ELSE [st EXCEPT !.dead_end_attr_set = Unwrap(state.dead_end_attr),
                       !.queue = Tail(queue1),
                       !.branches = 0,
                       !.input_attributes = state.input_attr,
                       !.inner_index = state.inner_index]

\* match arm 3: OutputType::NodeCleared with a non-empty queue
fcbo_node_cleared(st) ==
    LET len == Len(st.queue)
        first == len - st.branches        \* queue.len() - branches
        truncated ==
            IF st.branches # 0
            THEN [k \in {j \in DOMAIN st.dead_end_attr_set :
                           j >= At(st.queue, first).inner_index} |->
                     st.dead_end_attr_set[k]]
            ELSE st.dead_end_attr_set
        queue1 ==
            IF st.branches # 0
            THEN [i1 \in 1 .. len |->
                     IF i1 - 1 >= first
                     THEN [st.queue[i1] EXCEPT !.dead_end_attr = Some(truncated)]
                     ELSE st.queue[i1]]
            ELSE st.queue
        state == Head(queue1)
    IN IF st.branches > len \/ ~IsSome(state.dead_end_attr)
       THEN [st EXCEPT !.returned = PANIC]
       ELSE [st EXCEPT !.dead_end_attr_set = Unwrap(state.dead_end_attr),
                       !.queue = Tail(queue1),
                       !.branches = 0,
                       !.input_attributes = state.input_attr,
                       !.inner_index = state.inner_index]

----------------------------------------------------------------------------
\* sort_lectic_order (data_structures/formal_context.rs)

\* A weight sum that indexes weight by n instead of lenght - 1 - n.
LecticSum_ascending(c, set) ==
    LET weight == [k1 \in 1 .. NumAttributes(c) |-> 2 ^ k1]
        RECURSIVE Sum(_)
        Sum(S) == IF S = {} THEN 0
                  ELSE LET n == Min(S) IN At(weight, n) + Sum(S \ {n})
    IN Sum(set)

\* weight[k] = 2^(k+1), sum += weight[lenght - 1 - n]
LecticSum(c, set) ==
    LET lenght == NumAttributes(c)
        weight == [k1 \in 1 .. lenght |-> 2 ^ k1]
        RECURSIVE Sum(_)
        Sum(S) == IF S = {} THEN 0
                  ELSE LET n == Min(S) IN At(weight, lenght - 1 - n) + Sum(S \ {n})
    IN Sum(set)

\* order.sort_by(|x, y| x.1.cmp(&y.1)): a stable sort by the second component.
RECURSIVE sort_by(_)
sort_by(order) ==
    IF Len(order) <= 1 THEN order
    ELSE LET x == order[Len(order)]
             front == sort_by(SubSeq(order, 1, Len(order) - 1))
             k == Cardinality({i1 \in 1 .. Len(front) : front[i1][2] <= x[2]})
         IN SubSeq(front, 1, k) \o <<x>> \o SubSeq(front, k + 1, Len(front))

\* slice::swap
Swap(v, i, j) == [v EXCEPT ![i + 1] = v[j + 1], ![j + 1] = v[i + 1]]

\* The loop that applies the sorted order in place.
RECURSIVE swap_loop(_, _, _)
swap_loop(list, order, index) ==
    IF index >= Len(order) - 1 THEN [tag |-> "Sorted", list |-> list]
    ELSE LET swap == At(order, index)[1]
         IN IF index # swap
            THEN LET found == {k \in Range(Len(order)) : At(order, k)[1] = index}
                 IN IF found = {} THEN PANIC      \* position(..).unwrap()
                    ELSE LET correction == Min(found)
                             order1 == [order EXCEPT ![index + 1] = <<0, 0>>]
                             order2 == [order1 EXCEPT ![correction + 1] = <<swap, 0>>]
                         IN swap_loop(Swap(list, index, swap), order2, index + 1)
            ELSE swap_loop(list, order, index + 1)

sort_lectic_order(c, list) ==
    IF Len(list) = 0 THEN PANIC                  \* order.len() - 1 underflows
    ELSE LET order == [i1 \in 1 .. Len(list) |-> <<i1 - 1, LecticSum(c, list[i1][2])>>]
         IN swap_loop(list, sort_by(order), 0)

----------------------------------------------------------------------------
\* The enumeration model: a context is constructed, fcbo_index_concepts is
\* collected, index_concepts is collected, the FCbO list is sorted (the
\* sequence of the test lectic_sort).

\* The contexts handed to the algorithms: every incidence over up to
\* no x nm indices, built by FormalContext::construct.
NameVec(n) == [i1 \in 1 .. n |-> "a"]

ConstructedContext(c, no, nm) ==
    \E g \in 0 .. no, m \in 0 .. nm :
        \E I \in SUBSET (Range(g) \X Range(m)) :
            c = construct(NameVec(g), NameVec(m), I)

InitConcepts ==
    /\ ConstructedContext(context, EnumObjects, EnumAttributes)
    /\ pc = "fcbo"
    /\ fcbo = fcbo_concepts(context)
    /\ nc = concepts(context)
    /\ sorted = Idle
    /\ cb = Idle /\ cbo = Idle /\ ae = Idle /\ parse = Idle /\ cl = Idle /\ un = Idle /\ graph = Idle

FcboFirst ==
    /\ pc = "fcbo" /\ fcbo.returned.tag # "Panic"
    /\ fcbo.first_concept
    /\ fcbo' = fcbo_first(fcbo)
    /\ UNCHANGED <<context, pc, nc, sorted, cb, cbo, ae, parse, cl, un, graph>>

FcboCallingContext ==
    /\ pc = "fcbo" /\ fcbo.returned.tag # "Panic"
    /\ ~fcbo.first_concept
    /\ LET out == FcboOutput(context, fcbo)
       IN /\ out.type = "CallingContext"
          /\ fcbo' = fcbo_calling_context(context, fcbo, out)
    /\ UNCHANGED <<context, pc, nc, sorted, cb, cbo, ae, parse, cl, un, graph>>

FcboDeadEnd ==
    /\ pc = "fcbo" /\ fcbo.returned.tag # "Panic"
    /\ ~fcbo.first_concept
    /\ LET out == FcboOutput(context, fcbo)
       IN /\ out.type = "DeadEndAttributes"
          /\ fcbo' = fcbo_dead_end(fcbo, out)
    /\ UNCHANGED <<context, pc, nc, sorted, cb, cbo, ae, parse, cl, un, graph>>

FcboNodeCleared ==
    /\ pc = "fcbo" /\ fcbo.returned.tag # "Panic"
    /\ ~fcbo.first_concept
    /\ LET out == FcboOutput(context, fcbo)
       IN /\ out.type \in {"NodeCleared", "Panic"}
          /\ Len(fcbo.queue) >= 1 \/ out.type = "Panic"
          /\ fcbo' = IF out.type = "Panic" THEN [fcbo EXCEPT !.returned = PANIC]
                     ELSE fcbo_node_cleared(fcbo)
    /\ UNCHANGED <<context, pc, nc, sorted, cb, cbo, ae, parse, cl, un, graph>>

\* NodeCleared with an empty queue: the closure returns None, collect() ends.
FcboEnd ==
    /\ pc = "fcbo" /\ fcbo.returned.tag # "Panic"
    /\ ~fcbo.first_concept
    /\ FcboOutput(context, fcbo).type = "NodeCleared"
    /\ Len(fcbo.queue) < 1
    /\ fcbo' = [fcbo EXCEPT !.returned = NONE]
    /\ pc' = "nc"
    /\ UNCHANGED <<context, nc, sorted, cb, cbo, ae, parse, cl, un, graph>>

\* One call of the NextClosure closure by collect(); a None ends collect().
ConceptsNext ==
    /\ pc = "nc" /\ nc.next.tag # "Panic"
    /\ nc' = concepts_next(context, nc)
    /\ pc' = IF IsSome(nc.next) THEN "nc" ELSE "sort"
    /\ UNCHANGED <<context, fcbo, sorted, cb, cbo, ae, parse, cl, un, graph>>

SortLecticOrder ==
    /\ pc = "sort"
    /\ sorted' = sort_lectic_order(context, fcbo.emitted)
    /\ pc' = "done"
    /\ UNCHANGED <<context, nc, fcbo, cb, cbo, ae, parse, cl, un, graph>>

NextConcepts ==
    \/ FcboFirst
    \/ FcboCallingContext
    \/ FcboDeadEnd
    \/ FcboNodeCleared
    \/ FcboEnd
    \/ ConceptsNext
    \/ SortLecticOrder

SpecConcepts == InitConcepts /\ [][NextConcepts]_vars

\* Nothing of the enumeration panicked.
NoPanic ==
    /\ nc # Idle => nc.next.tag # "Panic"
    /\ fcbo # Idle => fcbo.returned.tag # "Panic"
    /\ sorted.tag # "Panic"

----------------------------------------------------------------------------
\* The iterator model: a context is constructed, one of the two iterators is
\* created and its next() is called again and again, also after it has
\* returned None.  pc holds the engine driven and the number of calls
\* answered with None.

Driving(engine, ends) == [engine |-> engine, ends |-> ends]

InitIterate ==
    /\ ConstructedContext(context, IterObjects, IterAttributes)
    /\ \E engine \in {"fcbo", "nc"} : pc = Driving(engine, 0)
    /\ fcbo = fcbo_concepts(context)
    /\ nc = concepts(context)
    /\ sorted = Idle
    /\ cb = Idle /\ cbo = Idle /\ ae = Idle /\ parse = Idle /\ cl = Idle /\ un = Idle /\ graph = Idle

IterFcboFirst ==
    /\ pc.engine = "fcbo" /\ fcbo.returned.tag # "Panic"
    /\ fcbo.first_concept
    /\ fcbo' = fcbo_first(fcbo)
    /\ UNCHANGED <<context, pc, nc, sorted, cb, cbo, ae, parse, cl, un, graph>>

IterFcboCallingContext ==
    /\ pc.engine = "fcbo" /\ fcbo.returned.tag # "Panic"
    /\ ~fcbo.first_concept
    /\ LET out == FcboOutput(context, fcbo)
       IN /\ out.type = "CallingContext"
          /\ fcbo' = fcbo_calling_context(context, fcbo, out)
    /\ UNCHANGED <<context, pc, nc, sorted, cb, cbo, ae, parse, cl, un, graph>>

IterFcboDeadEnd ==
    /\ pc.engine = "fcbo" /\ fcbo.returned.tag # "Panic"
    /\ ~fcbo.first_concept
    /\ LET out == FcboOutput(context, fcbo)
       IN /\ out.type = "DeadEndAttributes"
          /\ fcbo' = fcbo_dead_end(fcbo, out)
    /\ UNCHANGED <<context, pc, nc, sorted, cb, cbo, ae, parse, cl, un, graph>>

IterFcboNodeCleared ==
    /\ pc.engine = "fcbo" /\ fcbo.returned.tag # "Panic"
    /\ ~fcbo.first_concept
    /\ LET out == FcboOutput(context, fcbo)
       IN /\ out.type \in {"NodeCleared", "Panic"}
          /\ Len(fcbo.queue) >= 1 \/ out.type = "Panic"
          /\ fcbo' = IF out.type = "Panic" THEN [fcbo EXCEPT !.returned = PANIC]
                     ELSE fcbo_node_cleared(fcbo)
    /\ UNCHANGED <<context, pc, nc, sorted, cb, cbo, ae, parse, cl, un, graph>>

\* NodeCleared with an empty queue: the closure returns None.
IterFcboEnd ==
    /\ pc.engine = "fcbo" /\ fcbo.returned.tag # "Panic"
    /\ pc.ends < MaxEnds
    /\ ~fcbo.first_concept
    /\ FcboOutput(context, fcbo).type = "NodeCleared"
    /\ Len(fcbo.queue) < 1
    /\ fcbo' = [fcbo EXCEPT !.returned = NONE]
    /\ pc' = Driving(pc.engine, pc.ends + 1)
    /\ UNCHANGED <<context, nc, sorted, cb, cbo, ae, parse, cl, un, graph>>

\* One call of the NextClosure closure.
IterConceptsNext ==
    /\ pc.engine = "nc" /\ nc.next.tag # "Panic"
    /\ pc.ends < MaxEnds
    /\ nc' = concepts_next(context, nc)
    /\ pc' = IF nc'.returned = NONE THEN Driving(pc.engine, pc.ends + 1) ELSE pc
    /\ UNCHANGED <<context, fcbo, sorted, cb, cbo, ae, parse, cl, un, graph>>

NextIterate ==
    \/ IterFcboFirst
    \/ IterFcboCallingContext
    \/ IterFcboDeadEnd
    \/ IterFcboNodeCleared
    \/ IterFcboEnd
    \/ IterConceptsNext

SpecIterate == InitIterate /\ [][NextIterate]_vars

\* The driver goes on calling next(): a step that is possible is taken.
SpecIterateFair == SpecIterate /\ WF_vars(NextIterate)

----------------------------------------------------------------------------
\* Implication closure, NextPreclosure and the canonical basis
\* (algorithms/canonical_basis.rs).  An implication is a pair <<premise,
\* conclusion>>, an implication list a sequence of them.

is_smallest_num(min, input_set) == \A n \in Range(min) : n \notin input_set

set_upto(n) == 0 .. n

retain_eq_less(max, input_set) == {x \in input_set : x <= max}

\* One pass of the for loop of implication_closure over the remaining
\* implications, from position k1 on: output grows while the pass runs,
\* indices collects the positions that fired.
RECURSIVE implication_closure_pass(_, _, _, _)
implication_closure_pass(implications, k1, output, indices) ==
    IF k1 > Len(implications) THEN [output |-> output, indices |-> indices]
    ELSE IF implications[k1][1] \subseteq output
         THEN implication_closure_pass(implications, k1 + 1,
                                       output \cup implications[k1][2],
                                       indices \cup {k1 - 1})
         ELSE implication_closure_pass(implications, k1 + 1, output, indices)

\* implications.retain(..): drop the positions in indices.
RECURSIVE Retain(_, _, _)
Retain(implications, indices, k1) ==
    IF k1 > Len(implications) THEN <<>>
    ELSE IF (k1 - 1) \in indices
         THEN Retain(implications, indices, k1 + 1)
         ELSE <<implications[k1]>> \o Retain(implications, indices, k1 + 1)

\* An implication_closure that stops after its first pass.
implication_closure_single_pass(implications, input) ==
    implication_closure_pass(implications, 1, input, {}).output

\* The loop of implication_closure: passes until one fires nothing.
RECURSIVE implication_closure(_, _)
implication_closure(implications, input) ==
    LET pass == implication_closure_pass(implications, 1, input, {})
    IN IF pass.indices = {} THEN pass.output
       ELSE implication_closure(Retain(implications, pass.indices, 1), pass.output)

\* implication_closure_lin.  count is keyed by the pair (premise,
\* conclusion) itself (&BitSet hashes and compares by value), so equal pairs
\* of the list share one counter; list[a] gets one entry per occurrence.
lin_count(implications) ==
    [e \in {implications[k] : k \in 1 .. Len(implications)} |-> Cardinality(e[1])]

\* list.get(&a): the implications with a in the premise, in list order.
lin_list(implications, a) ==
    LET RECURSIVE Pick(_)
        Pick(k) == IF k > Len(implications) THEN <<>>
                   ELSE IF a \in implications[k][1]
                        THEN <<implications[k]>> \o Pick(k + 1)
                        ELSE Pick(k + 1)
    IN Pick(1)

\* The output after the first for loop: the conclusions of the implications
\* with an empty premise are united into the input.
lin_seed(implications, input) ==
    input \cup UNION {implications[k][2] :
                         k \in {j \in 1 .. Len(implications) : implications[j][1] = {}}}

\* for entry in list.get(&m).unwrap(), from position k on.  A counter that
\* is 0 when it is decremented underflows: a build with overflow checks
\* panics, a build without them wraps (a counter below 0 stands for the
\* wrapped value).
RECURSIVE lin_entries(_, _, _, _, _, _)
lin_entries(entries, k, count, output, update, overflow_checks) ==
    IF k > Len(entries) THEN [tag |-> "Ran", count |-> count, output |-> output, update |-> update]
    ELSE LET entry == entries[k]
         IN IF count[entry] = 0 /\ overflow_checks THEN PANIC
            ELSE LET decremented == [count EXCEPT ![entry] = @ - 1]
                 IN IF decremented[entry] = 0
                    THEN LET add == entry[2] \ output
                         IN lin_entries(entries, k + 1, decremented, output \cup add,
                                        update \cup add, overflow_checks)
                    ELSE lin_entries(entries, k + 1, decremented, output, update,
                                     overflow_checks)

\* while update != empty_set { .. }
RECURSIVE lin_loop(_, _, _, _, _)
lin_loop(implications, count, output, update, overflow_checks) ==
    IF update = {} THEN Some(output)
    ELSE LET m == Min(update)
             ran == lin_entries(lin_list(implications, m), 1, count, output,
                                update \ {m}, overflow_checks)
         IN IF ran.tag = "Panic" THEN PANIC
            ELSE lin_loop(implications, ran.count, ran.output, ran.update, overflow_checks)

implication_closure_lin(implications, input, overflow_checks) ==
    lin_loop(implications, lin_count(implications), lin_seed(implications, input),
             lin_seed(implications, input), overflow_checks)

\* The for loop of next_preclosure, from attribute m downwards.
RECURSIVE next_preclosure_loop(_, _, _, _)
next_preclosure_loop(c, implications, temp_set, m) ==
    IF m < 0 THEN Range(NumAttributes(c))
    ELSE IF m \in temp_set
         THEN next_preclosure_loop(c, implications, temp_set \ {m}, m - 1)
         ELSE LET inserted == temp_set \cup {m}
                  output == implication_closure(implications, inserted)
              IN IF is_smallest_num(m, output \ inserted) THEN output
                 ELSE next_preclosure_loop(c, implications, temp_set, m - 1)

\* A next_preclosure whose loop starts one attribute too low.
next_preclosure_skips_last(c, implications, input) ==
    next_preclosure_loop(c, implications, input, NumAttributes(c) - 2)

next_preclosure(c, implications, input) ==
    next_preclosure_loop(c, implications, input, NumAttributes(c) - 1)

\* The locals of canonical_basis before its while loop.
canonical_basis_locals == [temp_set |-> {}, implications |-> <<>>, status |-> "run"]

\* An iteration that computes the successor before the new implication is
\* part of the list.
canonical_basis_iteration_stale_list(c, st) ==
    LET temp_set_hull == index_attribute_hull(c, st.temp_set)
        implications == IF st.temp_set # temp_set_hull
                        THEN Append(st.implications, <<st.temp_set, temp_set_hull>>)
                        ELSE st.implications
    IN [st EXCEPT !.implications = implications,
                  !.temp_set = next_preclosure(c, st.implications, st.temp_set)]

\* An iteration that puts the new implication at the front of the list.
canonical_basis_iteration_prepends(c, st) ==
    LET temp_set_hull == index_attribute_hull(c, st.temp_set)
        implications == IF st.temp_set # temp_set_hull
                        THEN << <<st.temp_set, temp_set_hull>> >> \o st.implications
                        ELSE st.implications
    IN [st EXCEPT !.implications = implications,
                  !.temp_set = next_preclosure(c, implications, st.temp_set)]

\* One iteration of the while loop of canonical_basis.
canonical_basis_iteration(c, st) ==
    LET temp_set_hull == index_attribute_hull(c, st.temp_set)
        implications == IF st.temp_set # temp_set_hull
                        THEN Append(st.implications, <<st.temp_set, temp_set_hull>>)
                        ELSE st.implications
    IN [st EXCEPT !.implications = implications,
                  !.temp_set = next_preclosure(c, implications, st.temp_set)]

\* The locals of canonical_basis_optimised before its while loop.  With no
\* attribute, i = len() - 1 underflows: -1 stands for the wrapped value.
canonical_basis_optimised_locals(c) ==
    LET temp_set == index_attribute_hull(c, {})
    IN [ temp_set |-> temp_set,
         implications |-> IF temp_set # {} THEN << <<{}, temp_set>> >> ELSE <<>>,
         i |-> NumAttributes(c) - 1,
         status |-> "run" ]

\* The for loop "for j in (0..i + 1).rev()" of canonical_basis_optimised.
RECURSIVE optimised_descend(_, _, _, _)
optimised_descend(implications, temp_set, i, j) ==
    IF j < 0 THEN [temp_set |-> temp_set, i |-> i]
    ELSE IF j \in temp_set
         THEN optimised_descend(implications, temp_set \ {j}, i, j - 1)
         ELSE LET b == implication_closure(implications, temp_set \cup {j})
              IN IF is_smallest_num(j, b \ temp_set)
                 THEN [temp_set |-> b, i |-> j]
                 ELSE optimised_descend(implications, temp_set, i, j - 1)

\* An iteration that leaves the cursor where the descent stopped instead of
\* resetting it to the last attribute when the hull is adopted.
canonical_basis_optimised_iteration_keeps_cursor(c, st) ==
    LET found == optimised_descend(st.implications, st.temp_set, st.i, st.i)
        temp_set == found.temp_set
        i == found.i
        temp_set_hull == index_attribute_hull(c, temp_set)
        implications == IF temp_set # temp_set_hull
                        THEN Append(st.implications, <<temp_set, temp_set_hull>>)
                        ELSE st.implications
    IN IF is_smallest_num(i, temp_set_hull \ temp_set)
       THEN [st EXCEPT !.implications = implications,
                       !.temp_set = temp_set_hull,
                       !.i = i]
       ELSE [st EXCEPT !.implications = implications,
                       !.temp_set = retain_eq_less(i, temp_set),
                       !.i = i]

\* One iteration of the while loop of canonical_basis_optimised.
canonical_basis_optimised_iteration(c, st) ==
    LET found == optimised_descend(st.implications, st.temp_set, st.i, st.i)
        temp_set == found.temp_set
        i == found.i
        temp_set_hull == index_attribute_hull(c, temp_set)
        implications == IF temp_set # temp_set_hull
                        THEN Append(st.implications, <<temp_set, temp_set_hull>>)
                        ELSE st.implications
    IN IF is_smallest_num(i, temp_set_hull \ temp_set)
       THEN [st EXCEPT !.implications = implications,
                       !.temp_set = temp_set_hull,
                       !.i = NumAttributes(c) - 1]
       ELSE [st EXCEPT !.implications = implications,
                       !.temp_set = retain_eq_less(i, temp_set),
                       !.i = i]

----------------------------------------------------------------------------
\* The basis model: a context is constructed, canonical_basis runs on it,
\* then canonical_basis_optimised.

\* The triangles context of canonical_basis_test (test_data/triangles.cxt is
\* not among the sources): seven triangles over the attributes 0 equilateral,
\* 1 isosceles, 2 acute-angled, 3 obtuse-angled, 4 right-angled.  Its intents
\* are the sets closed under the four implications the test expects.
Triangles ==
    construct(NameVec(7), NameVec(5),
              { <<0, 0>>, <<0, 1>>, <<0, 2>>,
                <<1, 1>>, <<1, 2>>,
                <<2, 1>>, <<2, 3>>,
                <<3, 1>>, <<3, 4>>,
                <<4, 2>>,
                <<5, 3>>,
                <<6, 4>> })

InitBasis ==
    /\ \/ ConstructedContext(context, BasisObjects, BasisAttributes)
       \/ context = Triangles
    /\ pc = "canonical_basis"
    /\ cb = canonical_basis_locals
    /\ cbo = canonical_basis_optimised_locals(context)
    /\ nc = Idle /\ fcbo = Idle /\ sorted = Idle /\ ae = Idle /\ parse = Idle /\ cl = Idle /\ un = Idle /\ graph = Idle

\* while temp_set != set_upto(len - 1) { .. }: the body runs.
CanonicalBasisLoop ==
    /\ pc = "canonical_basis"
    /\ NumAttributes(context) >= 1
    /\ cb.temp_set # set_upto(NumAttributes(context) - 1)
    /\ cb' = canonical_basis_iteration(context, cb)
    /\ UNCHANGED <<context, pc, nc, fcbo, sorted, cbo, ae, parse, cl, un, graph>>

\* The loop condition fails and implications is returned.  With no attribute
\* len() - 1 underflows: a build with overflow checks panics, a build
\* without them wraps, set_upto(usize::MAX) is then the empty set (n + 1
\* wraps to 0) and the loop is not entered.
CanonicalBasisReturn ==
    /\ pc = "canonical_basis"
    /\ IF NumAttributes(context) >= 1
       THEN /\ cb.temp_set = set_upto(NumAttributes(context) - 1)
            /\ cb' = [cb EXCEPT !.status = "done"]
       ELSE \E overflow_checks \in BOOLEAN :
                cb' = [cb EXCEPT !.status = IF overflow_checks THEN "panic" ELSE "done"]
    /\ pc' = "canonical_basis_optimised"
    /\ UNCHANGED <<context, nc, fcbo, sorted, cbo, ae, parse, cl, un, graph>>

CanonicalBasisOptimisedLoop ==
    /\ pc = "canonical_basis_optimised"
    /\ NumAttributes(context) >= 1
    /\ cbo.temp_set # set_upto(NumAttributes(context) - 1)
    /\ cbo' = canonical_basis_optimised_iteration(context, cbo)
    /\ UNCHANGED <<context, pc, nc, fcbo, sorted, cb, ae, parse, cl, un, graph>>

\* As CanonicalBasisReturn; the same build runs both functions, so with no
\* attribute the outcome of the underflow is the one canonical_basis had.
CanonicalBasisOptimisedReturn ==
    /\ pc = "canonical_basis_optimised"
    /\ IF NumAttributes(context) >= 1
       THEN /\ cbo.temp_set = set_upto(NumAttributes(context) - 1)
            /\ cbo' = [cbo EXCEPT !.status = "done"]
       ELSE cbo' = [cbo EXCEPT !.status = cb.status]
    /\ pc' = "done"
    /\ UNCHANGED <<context, nc, fcbo, sorted, cb, ae, parse, cl, un, graph>>

NextBasis ==
    \/ CanonicalBasisLoop
    \/ CanonicalBasisReturn
    \/ CanonicalBasisOptimisedLoop
    \/ CanonicalBasisOptimisedReturn

SpecBasis == InitBasis /\ [][NextBasis]_vars

----------------------------------------------------------------------------
\* The closure model: implication_closure and next_preclosure are called
\* with an arbitrary implication list over the attributes and an arbitrary
\* set of attributes.

ImplicationLists(m, n) ==
    UNION {[1 .. l -> (SUBSET Range(m)) \X (SUBSET Range(m))] : l \in 0 .. n}

InitClosure ==
    /\ \E m \in 0 .. ClosureAttributes :
          /\ context = construct(<<>>, NameVec(m), {})
          /\ \E implications \in ImplicationLists(m, MaxImplications),
                input \in SUBSET Range(m) :
                    cl = [ implications |-> implications,
                           input |-> input,
                           closure |-> NotCalled,
                           next |-> NotCalled ]
    /\ pc = "implication_closure"
    /\ nc = Idle /\ fcbo = Idle /\ sorted = Idle
    /\ cb = Idle /\ cbo = Idle /\ ae = Idle /\ parse = Idle /\ un = Idle /\ graph = Idle

ImplicationClosure ==
    /\ pc = "implication_closure"
    /\ cl' = [cl EXCEPT !.closure = Some(implication_closure(cl.implications, cl.input))]
    /\ pc' = "next_preclosure"
    /\ UNCHANGED <<context, nc, fcbo, sorted, cb, cbo, ae, parse, un, graph>>

NextPreclosure ==
    /\ pc = "next_preclosure"
    /\ cl' = [cl EXCEPT !.next = Some(next_preclosure(context, cl.implications, cl.input))]
    /\ pc' = "done"
    /\ UNCHANGED <<context, nc, fcbo, sorted, cb, cbo, ae, parse, un, graph>>

NextClosure ==
    \/ ImplicationClosure
    \/ NextPreclosure

SpecClosure == InitClosure /\ [][NextClosure]_vars

\* The linear closure model: implication_closure_lin is called with an
\* arbitrary implication list and seed.
InitLin ==
    /\ \E m \in 0 .. ClosureAttributes :
          /\ context = construct(<<>>, NameVec(m), {})
          /\ \E implications \in ImplicationLists(m, MaxImplications),
                input \in SUBSET Range(m) :
                    cl = [ implications |-> implications,
                           input |-> input,
                           lin |-> NotCalled ]
    /\ pc = "implication_closure_lin"
    /\ nc = Idle /\ fcbo = Idle /\ sorted = Idle
    /\ cb = Idle /\ cbo = Idle /\ ae = Idle /\ parse = Idle /\ un = Idle /\ graph = Idle

\* The build decides what an underflowing counter does.
ImplicationClosureLin ==
    /\ pc = "implication_closure_lin"
    /\ \E overflow_checks \in BOOLEAN :
          cl' = [cl EXCEPT !.lin = implication_closure_lin(cl.implications, cl.input,
                                                          overflow_checks)]
    /\ pc' = "done"
    /\ UNCHANGED <<context, nc, fcbo, sorted, cb, cbo, ae, parse, un, graph>>

NextLin == ImplicationClosureLin

SpecLin == InitLin /\ [][NextLin]_vars

----------------------------------------------------------------------------
\* Attribute exploration (algorithms/attribute_exploration.rs).  The oracle
\* behind first_question and second_question answers from a fixed finite
\* universe of objects, each given by its attribute set.

\* context.attributes.iter().position(|r| r.as_str() == name)
Position(v, name) ==
    LET hits == {i \in Range(Len(v)) : At(v, i) = name}
    IN IF hits = {} THEN NONE ELSE Some(Min(hits))

\* The 'a loop of second_question on one line of input, names being the
\* trimmed, non-empty pieces of the line: the for loop leaves through "break"
\* (line rejected, asked again) or "break 'a" (line accepted) at the first
\* name.  attributes_set is the set built so far.
second_question_line(c, attributes_set, names) ==
    IF Len(names) = 0
    THEN [accepted |-> FALSE, attributes_set |-> attributes_set]
    ELSE LET found == Position(c.attributes, Head(names))
             valid_name == IsSome(found) /\ Unwrap(found) \notin attributes_set
         IN IF valid_name
            THEN [accepted |-> TRUE, attributes_set |-> attributes_set \cup {Unwrap(found)}]
            ELSE [accepted |-> FALSE, attributes_set |-> attributes_set]

\* The implication Z -> H holds in the universe U.
HoldsIn(U, Z, H) == \A S \in U : Z \subseteq S => H \subseteq S

\* The attribute names of S as the oracle types them: first one of its
\* choice, then the others in ascending order.
RECURSIVE Ascending(_)
Ascending(S) == IF S = {} THEN <<>> ELSE <<Min(S)>> \o Ascending(S \ {Min(S)})

TypedNames(c, S, first) ==
    [k \in 1 .. Cardinality(S) |->
        At(c.attributes, (<<first>> \o Ascending(S \ {first}))[k])]

AttributeNames(n) == SubSeq(<<"m0", "m1", "m2", "m3">>, 1, n)

\* A context whose objects are taken from the universe U.
ContextOver(c, U, no, m) ==
    \E g \in 0 .. no :
        \E rows \in [1 .. g -> U] :
            c = construct(NameVec(g), AttributeNames(m),
                          {<<g1 - 1, a>> : <<g1, a>> \in
                              {q \in (1 .. g) \X Range(m) : q[2] \in rows[q[1]]}})

\* The locals of attribute_exploration at its first statement.
attribute_exploration_locals(U) ==
    [ universe |-> U,
      basis |-> <<>>,
      temp_set |-> {},
      temp_set_hull |-> {},
      questions |-> <<>>,
      line |-> [names |-> <<>>, accepted |-> FALSE, attributes_set |-> {}] ]

InitExplore ==
    /\ \E m \in 0 .. ExploreAttributes :
           \E U \in SUBSET (SUBSET Range(m)) :
               /\ ContextOver(context, U, ExploreObjects, m)
               /\ ae = attribute_exploration_locals(U)
    /\ pc = "outer"
    /\ nc = Idle /\ fcbo = Idle /\ sorted = Idle /\ cb = Idle /\ cbo = Idle /\ parse = Idle /\ cl = Idle /\ un = Idle /\ graph = Idle

\* while temp_set != (0..len).collect() { let temp_set_hull = ..; .. }
ExploreOuterLoop ==
    /\ pc = "outer"
    /\ ae.temp_set # Range(NumAttributes(context))
    /\ ae' = [ae EXCEPT !.temp_set_hull = index_attribute_hull(context, ae.temp_set)]
    /\ pc' = "inner"
    /\ UNCHANGED <<context, nc, fcbo, sorted, cb, cbo, parse, cl, un, graph>>

\* The outer loop ends and basis is returned.
ExploreReturn ==
    /\ pc = "outer"
    /\ ae.temp_set = Range(NumAttributes(context))
    /\ pc' = "done"
    /\ UNCHANGED <<context, ae, nc, fcbo, sorted, cb, cbo, parse, cl, un, graph>>

\* while temp_set != temp_set_hull { first_question(..) .. }: the question
\* is put to the oracle.
ExploreAsk ==
    /\ pc = "inner"
    /\ ae.temp_set # ae.temp_set_hull
    /\ Len(ae.questions) < MaxQuestions
    /\ ae' = [ae EXCEPT !.questions = Append(@, <<ae.temp_set, ae.temp_set_hull>>)]
    /\ pc' = "first_question"
    /\ UNCHANGED <<context, nc, fcbo, sorted, cb, cbo, parse, cl, un, graph>>

\* The inner loop is not entered (temp_set is its hull); next_preclosure.
ExploreClosed ==
    /\ pc = "inner"
    /\ ae.temp_set = ae.temp_set_hull
    /\ ae' = [ae EXCEPT !.temp_set = next_preclosure(context, ae.basis, ae.temp_set)]
    /\ pc' = "outer"
    /\ UNCHANGED <<context, nc, fcbo, sorted, cb, cbo, parse, cl, un, graph>>

\* first_question returns true: push, break, next_preclosure.
ExploreYes ==
    /\ pc = "first_question"
    /\ HoldsIn(ae.universe, ae.temp_set, ae.temp_set_hull \ ae.temp_set)
    /\ LET basis == Append(ae.basis, <<ae.temp_set, ae.temp_set_hull>>)
       IN ae' = [ae EXCEPT !.basis = basis,
                           !.temp_set = next_preclosure(context, basis, ae.temp_set)]
    /\ pc' = "outer"
    /\ UNCHANGED <<context, nc, fcbo, sorted, cb, cbo, parse, cl, un, graph>>

\* first_question returns false; second_question starts.
ExploreNo ==
    /\ pc = "first_question"
    /\ ~HoldsIn(ae.universe, ae.temp_set, ae.temp_set_hull \ ae.temp_set)
    /\ pc' = "second_question"
    /\ UNCHANGED <<context, ae, nc, fcbo, sorted, cb, cbo, parse, cl, un, graph>>

\* The line the oracle types with a name that is no attribute of the
\* context put in front of it, behind it, or nowhere.
WithTypo(names, typo) ==
    CASE typo = "front" -> <<"unknown">> \o names
      [] typo = "back" -> Append(names, "unknown")
      [] OTHER -> names

\* The oracle names an object of the universe that violates the implication
\* asked and types its attributes; second_question reads the line.  An
\* accepted line ends second_question and the object is added; a rejected
\* line is asked for again.  ae.line keeps the line read last.
ExploreCounterexample ==
    /\ pc = "second_question"
    /\ \E S \in ae.universe, new_object \in Names, typo \in {"none", "front", "back"} :
          /\ ae.temp_set \subseteq S
          /\ ~((ae.temp_set_hull \ ae.temp_set) \subseteq S)
          /\ \E first \in (IF S = {} THEN {0} ELSE S) :
                LET names == WithTypo(IF S = {} THEN <<>> ELSE TypedNames(context, S, first),
                                      typo)
                    line == second_question_line(context, {}, names)
                IN /\ ae' = [ae EXCEPT !.line = [names |-> names,
                                                  accepted |-> line.accepted,
                                                  attributes_set |-> line.attributes_set]]
                   /\ IF line.accepted
                      THEN /\ context' = add_object(context, new_object, line.attributes_set)
                           /\ pc' = "inner"
                      ELSE UNCHANGED <<context, pc>>
    /\ UNCHANGED <<nc, fcbo, sorted, cb, cbo, parse, cl, un, graph>>

NextExplore ==
    \/ ExploreOuterLoop
    \/ ExploreReturn
    \/ ExploreAsk
    \/ ExploreClosed
    \/ ExploreYes
    \/ ExploreNo
    \/ ExploreCounterexample

SpecExplore == InitExplore /\ [][NextExplore]_vars

----------------------------------------------------------------------------
\* The Burmeister parser FormalContext::from.  A file is the sequence of its
\* lines as contents.lines() yields them, a line the sequence of its
\* characters.

Ok(x) == [tag |-> "Ok", val |-> x]

Err(e) == [tag |-> "Err", err |-> e]

Digit(ch) ==
    CASE ch = "0" -> 0 [] ch = "1" -> 1 [] ch = "2" -> 2 [] ch = "3" -> 3 [] ch = "4" -> 4
      [] ch = "5" -> 5 [] ch = "6" -> 6 [] ch = "7" -> 7 [] ch = "8" -> 8 [] ch = "9" -> 9
      [] OTHER -> -1

RECURSIVE DecimalValue(_, _)
DecimalValue(line, acc) ==
    IF line = <<>> THEN acc ELSE DecimalValue(Tail(line), 10 * acc + Digit(Head(line)))

\* str::parse::<usize> on a line without sign: the empty line and a line
\* with a character that is no digit are ParseIntErrors.
parse_usize(line) ==
    IF line = <<>> \/ \E k \in 1 .. Len(line) : Digit(line[k]) < 0
    THEN Err("ParseError")
    ELSE Ok(DecimalValue(line, 0))

\* The locals of from before its first statement; lines is what the
\* iterator has not yet yielded.
from_locals(contents) ==
    [ contents |-> contents,
      lines |-> contents,
      object_count |-> 0,
      attribute_count |-> 0,
      objects |-> <<>>,
      attributes |-> <<>>,
      incidence |-> {},
      result |-> NotCalled ]

\* Lines 67-76: the literal B, the name line, the two counts, the blank line.
from_header(st) ==
    IF Len(st.lines) = 0 THEN [st EXCEPT !.result = Err("InvalidFormat")]
    ELSE IF st.lines[1] # <<"B">> THEN [st EXCEPT !.result = Err("InvalidFormat")]
    ELSE IF Len(st.lines) < 2 THEN [st EXCEPT !.result = Err("InvalidFormat")]
    ELSE IF Len(st.lines) < 3 THEN [st EXCEPT !.result = Err("InvalidFormat")]
    ELSE IF parse_usize(st.lines[3]).tag = "Err" THEN [st EXCEPT !.result = parse_usize(st.lines[3])]
    ELSE IF Len(st.lines) < 4 THEN [st EXCEPT !.result = Err("InvalidFormat")]
    ELSE IF parse_usize(st.lines[4]).tag = "Err" THEN [st EXCEPT !.result = parse_usize(st.lines[4])]
    ELSE IF Len(st.lines) < 5 THEN [st EXCEPT !.result = Err("InvalidFormat")]
    ELSE [st EXCEPT !.object_count = parse_usize(st.lines[3]).val,
                    !.attribute_count = parse_usize(st.lines[4]).val,
                    !.lines = SubSeq(st.lines, 6, Len(st.lines))]

\* Lines 78-86: object_count object names, then attribute_count attribute
\* names.
from_names(st) ==
    IF Len(st.lines) < st.object_count + st.attribute_count
    THEN [st EXCEPT !.result = Err("InvalidFormat")]
    ELSE [st EXCEPT !.objects = SubSeq(st.lines, 1, st.object_count),
                    !.attributes = SubSeq(st.lines, st.object_count + 1,
                                          st.object_count + st.attribute_count),
                    !.lines = SubSeq(st.lines, st.object_count + st.attribute_count + 1,
                                     Len(st.lines))]

\* Lines 88-96: one row per object; every position of the row that holds X
\* or x gives a pair.
from_incidence(st) ==
    IF Len(st.lines) < st.object_count
    THEN [st EXCEPT !.result = Err("InvalidFormat")]
    ELSE [st EXCEPT !.incidence =
                        UNION {{<<g, m>> : m \in {k \in Range(Len(st.lines[g + 1])) :
                                                    st.lines[g + 1][k + 1] \in {"X", "x"}}} :
                               g \in Range(st.object_count)},
                    !.lines = SubSeq(st.lines, st.object_count + 1, Len(st.lines))]

\* Line 98 with the indexing of lines 44-47 of construct:
\* atomic_object_derivations[g] and atomic_attribute_derivations[m] panic
\* when the index is out of bounds.
from_construct(st) ==
    IF \E p \in st.incidence : p[1] >= Len(st.objects) \/ p[2] >= Len(st.attributes)
    THEN [st EXCEPT !.result = PANIC]
    ELSE [st EXCEPT !.result = Ok(construct(st.objects, st.attributes, st.incidence))]

\* FormalContext::from as a function of the file.
from(contents) ==
    LET header == from_header(from_locals(contents))
        names == IF header.result.tag = "NotCalled" THEN from_names(header) ELSE header
        rows == IF names.result.tag = "NotCalled" THEN from_incidence(names) ELSE names
        built == IF rows.result.tag = "NotCalled" THEN from_construct(rows) ELSE rows
    IN built.result

\* The parser model: from is called on a file with a first line, a name
\* line, two count lines, a blank line, g object names, m attribute names
\* and g rows, cut off after any number of lines.

Numeral(n) == <<At(<<"0", "1", "2", "3", "4", "5", "6", "7", "8", "9">>, n)>>

RowChars == {"X", "x", "."}

Rows(m) == UNION {[1 .. l -> RowChars] : l \in 0 .. (m + 1)}

NameLines(n, ch) == [i1 \in 1 .. n |-> <<ch>>]

BurmeisterFile(first, object_line, attribute_line, g, m, rows) ==
    <<first, <<"n">>, object_line, attribute_line, <<>>>>
        \o NameLines(g, "g") \o NameLines(m, "m") \o rows

InitParse ==
    /\ \E g \in 0 .. ParseObjects, m \in 0 .. ParseAttributes :
          \E first \in {<<"B">>, <<"b">>},
             object_line \in {Numeral(g), <<"x">>},
             attribute_line \in {Numeral(m), <<>>},
             rows \in [1 .. g -> Rows(m)] :
                \E k \in 0 .. (5 + g + m + g) :
                    parse = from_locals(SubSeq(
                        BurmeisterFile(first, object_line, attribute_line, g, m, rows), 1, k))
    /\ pc = "from_header"
    /\ context = new
    /\ nc = Idle /\ fcbo = Idle /\ sorted = Idle
    /\ cb = Idle /\ cbo = Idle /\ ae = Idle /\ cl = Idle /\ un = Idle /\ graph = Idle

\* A step of from: pc moves on, or from returns with an error.
FromStep(st, next) ==
    /\ parse' = st
    /\ pc' = IF st.result.tag = "NotCalled" THEN next ELSE "returned"
    /\ context' = IF st.result.tag = "Ok" THEN st.result.val ELSE context
    /\ UNCHANGED <<nc, fcbo, sorted, cb, cbo, ae, cl, un, graph>>

FromHeader == pc = "from_header" /\ FromStep(from_header(parse), "from_names")

FromNames == pc = "from_names" /\ FromStep(from_names(parse), "from_incidence")

FromIncidence == pc = "from_incidence" /\ FromStep(from_incidence(parse), "from_construct")

FromConstruct == pc = "from_construct" /\ FromStep(from_construct(parse), "returned")

NextParse ==
    \/ FromHeader
    \/ FromNames
    \/ FromIncidence
    \/ FromConstruct

SpecParse == InitParse /\ [][NextParse]_vars

----------------------------------------------------------------------------
\* upper_neighbor (algorithms/upper_neighbor.rs)

\* A loop that drops m whenever the hull of input with m holds more than m.
RECURSIVE upper_neighbor_loop_hull_only(_, _, _, _)
upper_neighbor_loop_hull_only(c, input, rest, output) ==
    IF rest = {} THEN output
    ELSE LET m == Min(rest)
             hull_input_m == index_object_hull(c, input \cup {m})
         IN IF hull_input_m # input \cup {m}
            THEN upper_neighbor_loop_hull_only(c, input, rest \ {m}, output \ {m})
            ELSE upper_neighbor_loop_hull_only(c, input, rest \ {m}, output)

upper_neighbor_hull_only(input, c) ==
    upper_neighbor_loop_hull_only(c, input, Range(NumObjects(c)) \ input,
                                  Range(NumObjects(c)) \ input)

\* for m in &diff_set { .. }: rest is what the iterator has not yet yielded.
RECURSIVE upper_neighbor_loop(_, _, _, _)
upper_neighbor_loop(c, input, rest, output) ==
    IF rest = {} THEN output
    ELSE LET m == Min(rest)
             hull_input_m == index_object_hull(c, input \cup {m})
             hull_input_m_and_output == hull_input_m \cap output
         IN IF hull_input_m_and_output # {m}
            THEN upper_neighbor_loop(c, input, rest \ {m}, output \ {m})
            ELSE upper_neighbor_loop(c, input, rest \ {m}, output)

upper_neighbor(input, c) ==
    LET diff_set == Range(NumObjects(c)) \ input
    IN upper_neighbor_loop(c, input, diff_set, diff_set)

\* The neighbor model: upper_neighbor is called on a constructed context
\* with a set of its objects.
InitNeighbor ==
    /\ ConstructedContext(context, NeighborObjects, NeighborAttributes)
    /\ \E input \in SUBSET Range(NumObjects(context)) :
          un = [input |-> input, output |-> NotCalled]
    /\ pc = "upper_neighbor"
    /\ nc = Idle /\ fcbo = Idle /\ sorted = Idle /\ cb = Idle /\ cbo = Idle
    /\ ae = Idle /\ parse = Idle /\ cl = Idle /\ graph = Idle

UpperNeighbor ==
    /\ pc = "upper_neighbor"
    /\ un' = [un EXCEPT !.output = Some(upper_neighbor(un.input, context))]
    /\ pc' = "done"
    /\ UNCHANGED <<context, nc, fcbo, sorted, cb, cbo, ae, parse, cl, graph>>

NextNeighbor == UpperNeighbor

SpecNeighbor == InitNeighbor /\ [][NextNeighbor]_vars

----------------------------------------------------------------------------
\* Graph::from_concepts (data_structures/graph.rs)

\* index_concepts().collect(): the closure of concepts() is called until it
\* returns None.
RECURSIVE collect_concepts(_, _)
collect_concepts(c, st) ==
    IF IsSome(st.next) THEN collect_concepts(c, concepts_next(c, st)) ELSE st.emitted

\* fcbo_index_concepts().collect(): the closure of fcbo_concepts() is
\* called until it returns None.
RECURSIVE collect_fcbo(_, _)
collect_fcbo(c, st) ==
    IF st.returned.tag = "Panic" THEN st.emitted
    ELSE IF st.first_concept THEN collect_fcbo(c, fcbo_first(st))
    ELSE LET out == FcboOutput(c, st)
         IN CASE out.type = "CallingContext" ->
                    collect_fcbo(c, fcbo_calling_context(c, st, out))
              [] out.type = "DeadEndAttributes" -> collect_fcbo(c, fcbo_dead_end(st, out))
              [] out.type = "NodeCleared" /\ Len(st.queue) >= 1 ->
                    collect_fcbo(c, fcbo_node_cleared(st))
              [] OTHER -> st.emitted

\* concepts.iter().position(|x| *x == concept)
PositionOf(v, x) ==
    LET hits == {i \in Range(Len(v)) : At(v, i) = x}
    IN IF hits = {} THEN NONE ELSE Some(Min(hits))

\* The locals of from_concepts when the loop 'a is entered.  concepts holds
\* the extents; list is the argument.
from_concepts_locals(list) ==
    [ list |-> list,
      concepts |-> [i1 \in 1 .. Len(list) |-> list[i1][1]],
      edges |-> <<>>,
      queue |-> <<>>,
      root_index |-> Len(list) - 1,
      nodes |-> {},
      result |-> NotCalled ]

\* for n in &obj_list { .. }: rest is what the iterator has not yet
\* yielded.  A task equals another when their sets are equal.
RECURSIVE from_concepts_neighbors(_, _, _)
from_concepts_neighbors(c, st, rest) ==
    IF rest = {} THEN st
    ELSE LET n == Min(rest)
             concept == index_object_hull(c, {n} \cup At(st.concepts, st.root_index))
             found == PositionOf(st.concepts, concept)
         IN IF ~IsSome(found) THEN [st EXCEPT !.result = PANIC]
            ELSE LET set_index == Unwrap(found)
                     contains == \E k \in 1 .. Len(st.queue) :
                                    At(st.concepts, st.queue[k]) = At(st.concepts, set_index)
                 IN IF contains
                    THEN from_concepts_neighbors(c, st, rest \ {n})
                    ELSE from_concepts_neighbors(c,
                             [st EXCEPT !.queue = Append(@, set_index),
                                        !.edges = Append(@, <<set_index, st.root_index>>)],
                             rest \ {n})

\* One pass of the body of "for _ in 0..lenght": the neighbors of the root
\* are queued, then the last task is popped, or the loop 'a is left.
from_concepts_visit(c, st) ==
    LET obj_list == upper_neighbor(At(st.concepts, st.root_index), c)
        queued == from_concepts_neighbors(c, st, obj_list)
    IN IF queued.result.tag = "Panic" THEN queued
       ELSE IF Len(queued.queue) # 0
            THEN [queued EXCEPT !.root_index = queued.queue[Len(queued.queue)],
                                !.queue = SubSeq(@, 1, Len(@) - 1)]
            ELSE [queued EXCEPT !.result = [tag |-> "Left"]]

\* The ids of the nodes rust_sugiyama lays out for an edge list: the
\* vertices of the edges (the edges recorded form one component, of which
\* remove(0) takes the layout; with no edge there is no layout to remove).
LaidOut(edges) == {edges[k][1] : k \in 1 .. Len(edges)} \cup {edges[k][2] : k \in 1 .. Len(edges)}

\* Lines 98-169: the labels are placed on the nodes laid out.  Every
\* position(..).unwrap() panics when it finds nothing.
from_concepts_labels(c, st) ==
    LET obj_labels == [obj \in Range(NumObjects(c)) |->
                          PositionOf(st.concepts, index_object_hull(c, {obj}))]
        attr_labels == [attr \in Range(NumAttributes(c)) |->
                           PositionOf(st.concepts, index_attribute_derivation(c, {attr}))]
        nodes == LaidOut(st.edges)
    IN IF \/ \E obj \in Range(NumObjects(c)) : ~IsSome(obj_labels[obj])
          \/ \E attr \in Range(NumAttributes(c)) : ~IsSome(attr_labels[attr])
          \/ Len(st.edges) = 0
          \/ \E obj \in Range(NumObjects(c)) : Unwrap(obj_labels[obj]) \notin nodes
          \/ \E attr \in Range(NumAttributes(c)) : Unwrap(attr_labels[attr]) \notin nodes
       THEN [st EXCEPT !.nodes = nodes, !.result = PANIC]
       ELSE [st EXCEPT !.nodes = nodes, !.result = Some("graph")]

\* The graph model: a context is constructed, its concepts are collected
\* from one of the two engines, and from_concepts is called on the list.
InitGraph ==
    /\ ConstructedContext(context, GraphObjects, GraphAttributes)
    /\ \E engine \in {"next_closure", "fcbo"} :
          graph = [engine |-> engine] @@
                  from_concepts_locals(
                      IF engine = "next_closure"
                      THEN collect_concepts(context, concepts(context))
                      ELSE collect_fcbo(context, fcbo_concepts(context)))
    /\ pc = "from_concepts"
    /\ nc = Idle /\ fcbo = Idle /\ sorted = Idle /\ cb = Idle /\ cbo = Idle
    /\ ae = Idle /\ parse = Idle /\ cl = Idle /\ un = Idle

\* if root_index == 0 { return None; }
FromConceptsNone ==
    /\ pc = "from_concepts"
    /\ graph.root_index = 0
    /\ graph' = [graph EXCEPT !.result = NONE]
    /\ pc' = "done"
    /\ UNCHANGED <<context, nc, fcbo, sorted, cb, cbo, ae, parse, cl, un>>

FromConceptsEnter ==
    /\ pc = "from_concepts"
    /\ graph.root_index # 0
    /\ pc' = "visit"
    /\ UNCHANGED <<context, graph, nc, fcbo, sorted, cb, cbo, ae, parse, cl, un>>

FromConceptsVisit ==
    /\ pc = "visit"
    /\ graph' = from_concepts_visit(context, graph)
    /\ pc' = IF graph'.result.tag = "Panic" THEN "done"
             ELSE IF graph'.result.tag = "Left" THEN "labels" ELSE "visit"
    /\ UNCHANGED <<context, nc, fcbo, sorted, cb, cbo, ae, parse, cl, un>>

FromConceptsLabels ==
    /\ pc = "labels"
    /\ graph' = from_concepts_labels(context, graph)
    /\ pc' = "done"
    /\ UNCHANGED <<context, nc, fcbo, sorted, cb, cbo, ae, parse, cl, un>>

NextGraph ==
    \/ FromConceptsNone
    \/ FromConceptsEnter
    \/ FromConceptsVisit
    \/ FromConceptsLabels

SpecGraph == InitGraph /\ [][NextGraph]_vars

----------------------------------------------------------------------------
\* Properties of the enumerators

ToSet(v) == {v[i1] : i1 \in 1 .. Len(v)}

NoDuplicates(v) == \A i1, j1 \in 1 .. Len(v) : v[i1] = v[j1] => i1 = j1

\* The attribute sets Y with Y = attr_hull(Y).
Intents(c) == {Y \in SUBSET Range(NumAttributes(c)) : index_attribute_hull(c, Y) = Y}

\* The formal concepts (Y', Y) with Y = Y''.
FormalConcepts(c) == {<<index_attribute_derivation(c, Y), Y>> : Y \in Intents(c)}

\* A precedes B in the lectic order: the smallest attribute in which they
\* differ belongs to B.
LecticLess(A, B) ==
    /\ A # B
    /\ Min((A \ B) \cup (B \ A)) \in B

\* weight(Y) = sum over m in Y of 2^(|M| - m)
LecticWeight(nm, Y) ==
    LET RECURSIVE W(_)
        W(S) == IF S = {} THEN 0 ELSE LET m == Min(S) IN 2 ^ (nm - m) + W(S \ {m})
    IN W(Y)

IntentsOf(v) == [i1 \in 1 .. Len(v) |-> v[i1][2]]

\* C2: the intents emitted by the NextClosure iterator until it signals end
\* are exactly the attribute sets Y with Y = attr_hull(Y), each emitted
\* exactly once.
C2_NextClosureEmitsAllIntentsOnce ==
    (nc # Idle /\ nc.returned = NONE) =>
        /\ ToSet(IntentsOf(nc.emitted)) = Intents(context)
        /\ NoDuplicates(IntentsOf(nc.emitted))

\* NextClosure has signalled end on a context with at least four intents.
C2_Witness ==
    /\ nc # Idle /\ nc.returned = NONE
    /\ Len(nc.emitted) >= 4
    /\ NumObjects(context) >= 2

\* C3: the set of (extent, intent) pairs emitted by fcbo_concepts until it
\* signals end equals the set emitted by the NextClosure iterator on the same
\* context, which is exactly the set of formal concepts (Y', Y) with Y = Y''.
C3_FcboEmitsSameConcepts ==
    (pc \in {"sort", "done"}) =>
        /\ fcbo.returned = NONE /\ nc.returned = NONE
        /\ ToSet(fcbo.emitted) = ToSet(nc.emitted)
        /\ ToSet(fcbo.emitted) = FormalConcepts(context)

\* Both enumerators have ended on a context where FCbO recorded a dead end
\* and emitted in another order than NextClosure.
C3_Witness ==
    /\ pc = "sort"
    /\ Len(fcbo.emitted) >= 5
    /\ fcbo.emitted # nc.emitted
    /\ \E j \in DOMAIN fcbo.dead_end_attr_set : fcbo.dead_end_attr_set[j] # {}

\* C4: the NextClosure iterator emits intents in strict lectic order (of two
\* consecutively emitted intents A then B, A differs from B and the smallest
\* attribute of their symmetric difference belongs to B), and the first
\* emitted pair is (attr_derivation(empty), attr_hull(empty)).
C4_NextClosureLecticOrder ==
    nc # Idle =>
        /\ \A k \in 1 .. Len(nc.emitted) - 1 :
               LecticLess(nc.emitted[k][2], nc.emitted[k + 1][2])
        /\ Len(nc.emitted) >= 1 =>
               nc.emitted[1] = <<index_attribute_derivation(context, {}),
                                 index_attribute_hull(context, {})>>

\* NextClosure has emitted at least three concepts, the first of them with a
\* non-empty intent.
C4_Witness ==
    /\ nc # Idle
    /\ Len(nc.emitted) >= 3
    /\ nc.emitted[1][2] # {}

----------------------------------------------------------------------------
\* Properties of the canonical basis

AttributeSubsets(c) == SUBSET Range(NumAttributes(c))

\* The pseudo-intents of cardinality at most k: P is a pseudo-intent iff it
\* is no intent and contains the hull of every pseudo-intent properly
\* contained in it.
RECURSIVE PseudoIntentsUpTo(_, _)
PseudoIntentsUpTo(c, k) ==
    IF k < 0 THEN {}
    ELSE LET smaller == PseudoIntentsUpTo(c, k - 1)
         IN smaller \cup
            { P \in AttributeSubsets(c) :
                /\ Cardinality(P) = k
                /\ index_attribute_hull(c, P) # P
                /\ \A Q \in smaller :
                      (Q \subseteq P /\ Q # P) => index_attribute_hull(c, Q) \subseteq P }

PseudoIntents(c) == PseudoIntentsUpTo(c, NumAttributes(c))

\* The premises Ps, each with its hull as conclusion, form a complete set of
\* implications: every attribute set that respects them all is an intent.
\* (Any sound implication (P, C) can be replaced by (P, P'') without losing
\* soundness or completeness, so these are all the candidates to beat.)
CompleteFamily(c, Ps) ==
    \A Y \in AttributeSubsets(c) :
        (\A P \in Ps : P \subseteq Y => index_attribute_hull(c, P) \subseteq Y)
            => index_attribute_hull(c, Y) = Y

\* canonical_basis has returned (its result is looked at once the driver is
\* through, when canonical_basis_optimised has run as well).
CanonicalBasisReturned ==
    cb # Idle /\ pc = "done" /\ cb.status = "done" /\ NumAttributes(context) >= 1

\* C6: with at least one attribute and L = canonical_basis(context), the
\* implication closure under L coincides with the context hull on every
\* attribute subset (every (P, C) of L is sound, and L is complete).
C6_BasisClosureIsHull ==
    CanonicalBasisReturned =>
        /\ \A Y \in AttributeSubsets(context) :
               implication_closure(cb.implications, Y) = index_attribute_hull(context, Y)
        /\ \A k \in 1 .. Len(cb.implications) :
               cb.implications[k][2]
                   \subseteq index_attribute_hull(context, cb.implications[k][1])

\* canonical_basis has returned at least two implications, and some
\* attribute set is closed by firing two of them.
C6_Witness ==
    /\ CanonicalBasisReturned
    /\ Len(cb.implications) >= 2
    /\ \E Y \in AttributeSubsets(context) :
           Cardinality({k \in 1 .. Len(cb.implications) :
                           /\ cb.implications[k][1] \subseteq index_attribute_hull(context, Y)
                           /\ ~(cb.implications[k][2] \subseteq Y)}) >= 2

\* C7: with at least one attribute, canonical_basis and
\* canonical_basis_optimised return equal implication sets.
C7_OptimisedEqualsStock ==
    (cbo # Idle /\ pc = "done" /\ NumAttributes(context) >= 1) =>
        /\ cb.status = "done" /\ cbo.status = "done"
        /\ ToSet(cb.implications) = ToSet(cbo.implications)

\* Both functions have returned at least two implications on a context
\* where the optimised variant truncated its set at the cursor at least
\* once (its list starts with the implication of the empty premise).
C7_Witness ==
    /\ cbo # Idle /\ pc = "done"
    /\ cbo.status = "done"
    /\ Len(cbo.implications) >= 3
    /\ cbo.implications[1][1] = {}

\* C8: the list returned by canonical_basis has minimum cardinality among
\* the sound and complete implication sets of the context: its premises are
\* exactly the pseudo-intents, each conclusion is the hull of its premise,
\* and dropping any one implication leaves an incomplete list.
C8_BasisIsMinimum ==
    CanonicalBasisReturned =>
        /\ NoDuplicates(cb.implications)
        /\ {imp[1] : imp \in ToSet(cb.implications)} = PseudoIntents(context)
        /\ \A imp \in ToSet(cb.implications) :
               imp[2] = index_attribute_hull(context, imp[1])
        /\ \A imp \in ToSet(cb.implications) :
               ~CompleteFamily(context, {other[1] : other \in ToSet(cb.implications) \ {imp}})

\* canonical_basis has returned at least three implications.
C8_Witness ==
    /\ CanonicalBasisReturned
    /\ Len(cb.implications) >= 3

\* C9: the implications returned by canonical_basis appear in strict lectic
\* order of their premises; on the triangles context the result is
\* {3,4} -> M, {2,4} -> M, {2,3} -> M, {0} -> {0,1,2}, in that order.
C9_BasisInLecticOrder ==
    CanonicalBasisReturned =>
        /\ \A k \in 1 .. Len(cb.implications) - 1 :
               LecticLess(cb.implications[k][1], cb.implications[k + 1][1])
        /\ context = Triangles =>
               cb.implications = << <<{3, 4}, 0 .. 4>>, <<{2, 4}, 0 .. 4>>,
                                    <<{2, 3}, 0 .. 4>>, <<{0}, {0, 1, 2}>> >>

\* canonical_basis has returned at least three implications, their premises
\* not ordered by inclusion.
C9_Witness ==
    /\ CanonicalBasisReturned
    /\ Len(cb.implications) >= 3
    /\ ~(cb.implications[1][1] \subseteq cb.implications[2][1])

----------------------------------------------------------------------------
\* Properties of attribute exploration

\* C10: attribute_exploration terminates whenever the oracle answers from a
\* fixed finite universe.  Such an oracle answers a repeated question as it
\* did before (with no, and it may name the same object again), so the loop
\* reaches Z = M after finitely many queries only if no implication is put
\* to the oracle twice.
C10_ExplorationTerminates ==
    ae # Idle => NoDuplicates(ae.questions)

\* C17: every question asked, and every implication (Z, H) appended to the
\* list, has H = index_attribute_hull(Z) in the context as it is at that
\* moment, the objects added after a no included, and no question is asked
\* when Z is that hull.
C17_HullRecomputedAfterNo ==
    (ae # Idle /\ pc = "first_question") =>
        /\ ae.temp_set_hull = index_attribute_hull(context, ae.temp_set)
        /\ ae.temp_set # index_attribute_hull(context, ae.temp_set)

\* The indices of the names of a line, when every name is an attribute.
IndicesOf(c, names) ==
    {Unwrap(Position(c.attributes, names[k])) : k \in 1 .. Len(names)}

\* C18: the counterexample query returns only on a line all of whose names
\* are attribute names of the context, and the set it returns, which
\* add_object gives to the new object, is the set of the indices of all
\* the names of that line.
C18_CounterexampleTakesAllNames ==
    (ae # Idle /\ ae.line.accepted) =>
        /\ \A k \in 1 .. Len(ae.line.names) :
              IsSome(Position(context.attributes, ae.line.names[k]))
        /\ ae.line.attributes_set = IndicesOf(context, ae.line.names)
        /\ At(context.atomic_object_derivations, NumObjects(context) - 1)
              = IndicesOf(context, ae.line.names)

----------------------------------------------------------------------------
\* Properties of the FormalContext operations

ObjectSubsets(c) == SUBSET Range(NumObjects(c))

\* C11: index_attribute_hull and index_object_hull are closure operators on
\* every context: extensive, idempotent and monotone over the index subsets
\* of their universe.
C11_HullsAreClosureOperators ==
    /\ \A S \in AttributeSubsets(context) :
          /\ S \subseteq index_attribute_hull(context, S)
          /\ index_attribute_hull(context, index_attribute_hull(context, S))
                = index_attribute_hull(context, S)
          /\ \A T \in AttributeSubsets(context) :
                S \subseteq T =>
                    index_attribute_hull(context, S) \subseteq index_attribute_hull(context, T)
    /\ \A S \in ObjectSubsets(context) :
          /\ S \subseteq index_object_hull(context, S)
          /\ index_object_hull(context, index_object_hull(context, S))
                = index_object_hull(context, S)
          /\ \A T \in ObjectSubsets(context) :
                S \subseteq T =>
                    index_object_hull(context, S) \subseteq index_object_hull(context, T)

\* A context reached through the mutators on which both hulls enlarge some
\* set, and on which a set and a proper superset have different hulls.
C11_Witness ==
    /\ \E S \in AttributeSubsets(context) :
          /\ index_attribute_hull(context, S) # S
          /\ index_attribute_hull(context, S) # Range(NumAttributes(context))
    /\ \E S \in ObjectSubsets(context) :
          /\ index_object_hull(context, S) # S
          /\ \E T \in ObjectSubsets(context) :
                /\ S \subseteq T /\ S # T
                /\ index_object_hull(context, S) # index_object_hull(context, T)

\* What add_object(t, Y) has to leave behind on a context c with n objects.
AddObjectPost(c, c2, t, Y) ==
    LET n == NumObjects(c)
    IN /\ NumObjects(c2) = n + 1
       /\ Len(c2.atomic_object_derivations) = n + 1
       /\ At(c2.objects, n) = t
       /\ At(c2.atomic_object_derivations, n) = Y
       /\ c2.attributes = c.attributes
       /\ Len(c2.atomic_attribute_derivations) = Len(c.atomic_attribute_derivations)
       /\ \A m \in Range(NumAttributes(c)) :
             /\ (n \in At(c2.atomic_attribute_derivations, m)) <=> (m \in Y)
             /\ At(c2.atomic_attribute_derivations, m) \ {n}
                   = At(c.atomic_attribute_derivations, m) \ {n}
       /\ c2.incidence = c.incidence \cup {<<n, m>> : m \in Y}
       /\ \A g \in Range(n) :
             /\ At(c2.objects, g) = At(c.objects, g)
             /\ At(c2.atomic_object_derivations, g) = At(c.atomic_object_derivations, g)

\* C12: after add_object(t, Y) on a context with n objects, |G| = n+1,
\* A[n] = Y, D[m] contains n iff m is in Y, incidence gains exactly the
\* pairs (n, m) with m in Y, and the entries of the objects that existed
\* before are unchanged.
C12_AddObjectExtends ==
    [][pc'.op = "add_object" => AddObjectPost(context, context', pc'.arg, pc'.set)]_vars

\* add_object has just given a second object some but not all attributes,
\* next to an object that has attributes of its own.
C12_Witness ==
    /\ pc.op = "add_object"
    /\ pc.set # {}
    /\ pc.set # Range(NumAttributes(context))
    /\ NumObjects(context) >= 2
    /\ At(context.atomic_object_derivations, 0) # {}
    /\ At(context.atomic_object_derivations, NumObjects(context) - 1) = pc.set

\* The relation of c with object i deleted and the later objects renumbered.
WithoutObject(c, i) ==
    {p \in Range(NumObjects(c) - 1) \X Range(NumAttributes(c)) :
        \/ p[1] < i /\ p \in c.incidence
        \/ p[1] >= i /\ <<p[1] + 1, p[2]>> \in c.incidence}

WithoutAttribute(c, i) ==
    {p \in Range(NumObjects(c)) \X Range(NumAttributes(c) - 1) :
        \/ p[2] < i /\ p \in c.incidence
        \/ p[2] >= i /\ <<p[1], p[2] + 1>> \in c.incidence}

RemoveObjectPost(c, c2, i) ==
    /\ c2.objects = [k1 \in 1 .. NumObjects(c) - 1 |->
                        IF k1 - 1 < i THEN c.objects[k1] ELSE c.objects[k1 + 1]]
    /\ c2.attributes = c.attributes
    /\ c2.incidence = WithoutObject(c, i)
    /\ Len(c2.atomic_object_derivations) = NumObjects(c2)
    /\ Len(c2.atomic_attribute_derivations) = NumAttributes(c2)
    /\ StoresAgree(c2)

RemoveAttributePost(c, c2, i) ==
    /\ c2.attributes = [k1 \in 1 .. NumAttributes(c) - 1 |->
                           IF k1 - 1 < i THEN c.attributes[k1] ELSE c.attributes[k1 + 1]]
    /\ c2.objects = c.objects
    /\ c2.incidence = WithoutAttribute(c, i)
    /\ Len(c2.atomic_object_derivations) = NumObjects(c2)
    /\ Len(c2.atomic_attribute_derivations) = NumAttributes(c2)
    /\ StoresAgree(c2)

\* C13: on a consistent context remove_object(i), i < |G|, yields the
\* context with object i deleted and the later objects renumbered, names,
\* incidence, A and D alike; remove_attribute(i) does the same on the
\* attribute side.
C13_RemoveRenumbers ==
    [][StoresAgree(context) =>
          /\ pc'.op = "remove_object" => RemoveObjectPost(context, context', pc'.arg)
          /\ pc'.op = "remove_attribute" => RemoveAttributePost(context, context', pc'.arg)]_vars

\* remove_object(0) has just moved an object that has attributes down to
\* index 0 of a consistent context.
C13_Witness ==
    /\ pc.op = "remove_object"
    /\ pc.arg = 0
    /\ NumObjects(context) >= 1
    /\ StoresAgree(context)
    /\ At(context.atomic_object_derivations, 0) # {}
    /\ At(context.atomic_object_derivations, 0) # Range(NumAttributes(context))

----------------------------------------------------------------------------
\* Further properties of the canonical basis

\* C14: canonical_basis and canonical_basis_optimised are total: on every
\* context, one without attributes or without objects included, they return
\* an implication list and do not fail; without attributes the list is empty.
C14_BasisFunctionsTotal ==
    /\ cb # Idle => cb.status # "panic"
    /\ cbo # Idle => cbo.status # "panic"
    /\ (cb # Idle /\ pc = "done" /\ NumAttributes(context) = 0) =>
          /\ cb.status = "done" /\ cb.implications = <<>>
          /\ cbo.status = "done" /\ cbo.implications = <<>>

----------------------------------------------------------------------------
\* Properties of the Burmeister parser

\* The file has the literal B, all its lines, and counts that parse.
AllLinesPresent(contents) ==
    /\ Len(contents) >= 5
    /\ contents[1] = <<"B">>
    /\ parse_usize(contents[3]).tag = "Ok"
    /\ parse_usize(contents[4]).tag = "Ok"
    /\ Len(contents) >= 5 + 2 * parse_usize(contents[3]).val + parse_usize(contents[4]).val

FileObjects(contents) == parse_usize(contents[3]).val

FileAttributes(contents) == parse_usize(contents[4]).val

\* Row g of a file that has all its lines.
FileRow(contents, g) ==
    contents[5 + FileObjects(contents) + FileAttributes(contents) + g + 1]

\* The file with every row cut to its first |M| characters.
RowsTruncated(contents) ==
    [k \in 1 .. Len(contents) |->
        IF /\ k > 5 + FileObjects(contents) + FileAttributes(contents)
           /\ k <= 5 + 2 * FileObjects(contents) + FileAttributes(contents)
           /\ Len(contents[k]) > FileAttributes(contents)
        THEN SubSeq(contents[k], 1, FileAttributes(contents))
        ELSE contents[k]]

\* C15: when the rows of a Burmeister file are longer than |M|, the
\* characters at columns >= |M| are ignored: from returns Ok with the
\* context of the file whose rows are cut to |M| characters, X or x in a
\* trailing column or not, and incidence holds no pair (g,m) with m >= |M|.
C15_TrailingCharactersIgnored ==
    (/\ parse # Idle
     /\ pc = "returned"
     /\ AllLinesPresent(parse.contents)
     /\ \A g \in Range(FileObjects(parse.contents)) :
           Len(FileRow(parse.contents, g)) >= FileAttributes(parse.contents))
    => /\ parse.result.tag = "Ok"
       /\ parse.result = from(RowsTruncated(parse.contents))
       /\ \A p \in parse.result.val.incidence : p[2] < FileAttributes(parse.contents)

\* C16: from returns the InvalidFormat error, and never Ok, for a file
\* whose first line is not the literal B, that ends before all its lines
\* are present, or that has a row with fewer than |M| characters.
C16_DeviationIsInvalidFormat ==
    (/\ parse # Idle
     /\ pc = "returned"
     /\ \/ Len(parse.contents) = 0
        \/ parse.contents[1] # <<"B">>
        \/ Len(parse.contents) < 5
              /\ \A k \in {3, 4} \cap (1 .. Len(parse.contents)) :
                    parse_usize(parse.contents[k]).tag = "Ok"
        \/ Len(parse.contents) >= 5
              /\ parse_usize(parse.contents[3]).tag = "Ok"
              /\ parse_usize(parse.contents[4]).tag = "Ok"
              /\ ~AllLinesPresent(parse.contents)
        \/ AllLinesPresent(parse.contents)
              /\ \E g \in Range(FileObjects(parse.contents)) :
                    Len(FileRow(parse.contents, g)) < FileAttributes(parse.contents))
    => parse.result = Err("InvalidFormat")

----------------------------------------------------------------------------
\* Properties of implication_closure and next_preclosure

\* Y respects every implication of the list.
ClosedUnder(implications, Y) ==
    \A k \in 1 .. Len(implications) :
        implications[k][1] \subseteq Y => implications[k][2] \subseteq Y

\* C19: for an implication list L over M and Z # M, next_preclosure(L, Z)
\* is the lectically smallest set that is lectically greater than Z and
\* closed under L (implication_closure(L, B) = B); it is M when no smaller
\* such set exists, and next_preclosure(L, M) = M.
C19_NextPreclosureIsLecticSuccessor ==
    (cl # Idle /\ pc = "done") =>
        LET M == Range(NumAttributes(context))
            B == Unwrap(cl.next)
        IN IF cl.input = M THEN B = M
           ELSE /\ B \subseteq M
                /\ implication_closure(cl.implications, B) = B
                /\ LecticLess(cl.input, B)
                /\ \A Y \in SUBSET M :
                      (implication_closure(cl.implications, Y) = Y /\ LecticLess(cl.input, Y))
                          => (Y = B \/ LecticLess(B, Y))

\* next_preclosure has passed over an attribute that is not in Z before it
\* returned, and what it returned is more than (Z below i) with i added.
C19_Witness ==
    /\ cl # Idle /\ pc = "done"
    /\ cl.input # Range(NumAttributes(context))
    /\ LET i == Min(Unwrap(cl.next) \ cl.input)
       IN /\ \E m \in Range(NumAttributes(context)) \ cl.input : m > i
          /\ Unwrap(cl.next) # {z \in cl.input : z < i} \cup {i}

\* C20: implication_closure(L, Z) is the smallest superset of Z closed under
\* L: it contains Z, it contains C for every (P, C) of L with P inside it,
\* and every set with these two properties contains it.
C20_ImplicationClosureIsLeast ==
    (cl # Idle /\ pc # "implication_closure") =>
        LET output == Unwrap(cl.closure)
        IN /\ cl.input \subseteq output
           /\ ClosedUnder(cl.implications, output)
           /\ \A Y \in SUBSET (Range(NumAttributes(context)) \cup output) :
                 (cl.input \subseteq Y /\ ClosedUnder(cl.implications, Y))
                     => output \subseteq Y

\* The closure took a second pass: an implication early in the list fired
\* only after a later one had enlarged the set.
C20_Witness ==
    /\ cl # Idle /\ pc # "implication_closure"
    /\ implication_closure_pass(cl.implications, 1, cl.input, {}).output
          # Unwrap(cl.closure)

\* C21: the naive and the linear-time closure give the same result for
\* every implication list, lists that repeat a (premise, conclusion) pair or
\* hold an empty premise included, and every seed:
\* implication_closure_lin(L, Z) = implication_closure(L, Z).
C21_LinearClosureEqualsNaive ==
    (cl # Idle /\ pc = "done") =>
        cl.lin = Some(implication_closure(cl.implications, cl.input))

----------------------------------------------------------------------------
\* Properties of upper_neighbor and Graph::from_concepts

Extents(c) == {X \in SUBSET Range(NumObjects(c)) : index_object_hull(c, X) = X}

\* The extents that strictly contain X with no extent strictly between.
UpperCovers(c, X) ==
    {E \in Extents(c) :
        /\ X \subseteq E /\ X # E
        /\ ~\E F \in Extents(c) : /\ X \subseteq F /\ X # F
                                  /\ F \subseteq E /\ F # E}

\* C24: for an extent X, upper_neighbor(X) is a set R of objects outside X
\* on which m -> index_object_hull(X with m) is injective with the upper
\* covers of X as its image; R is non-empty iff X is not the set of all
\* objects.
C24_UpperNeighborGivesUpperCovers ==
    (un # Idle /\ pc = "done" /\ un.input \in Extents(context)) =>
        LET R == Unwrap(un.output)
            X == un.input
        IN /\ R \subseteq Range(NumObjects(context)) \ X
           /\ \A m1, m2 \in R :
                 index_object_hull(context, X \cup {m1}) = index_object_hull(context, X \cup {m2})
                     => m1 = m2
           /\ {index_object_hull(context, X \cup {m}) : m \in R} = UpperCovers(context, X)
           /\ (R # {}) <=> (X # Range(NumObjects(context)))

\* upper_neighbor has returned, for an extent, an object whose upper cover
\* adds more than one object, and has dropped an object whose hull is no
\* upper cover.
C24_Witness ==
    /\ un # Idle /\ pc = "done" /\ un.input \in Extents(context)
    /\ \E m \in Unwrap(un.output) :
          Cardinality(index_object_hull(context, un.input \cup {m}) \ un.input) >= 2
    /\ \E m \in Range(NumObjects(context)) \ un.input :
          index_object_hull(context, un.input \cup {m}) \notin UpperCovers(context, un.input)

\* The pairs (index of U, index of C) of a list of concepts in which the
\* extent of U is an upper cover of the extent of C.
CoveringPairs(c, list) ==
    {<<u, l>> \in Range(Len(list)) \X Range(Len(list)) :
        At(list, u)[1] \in UpperCovers(c, At(list, l)[1])}

EdgeSet(edges) == {edges[k] : k \in 1 .. Len(edges)}

\* C22: for a complete concept list in NextClosure order with at least two
\* concepts, the edge list of Graph::from_concepts, once the loop is left,
\* holds exactly the pairs of the covering relation, each of them once.
C22_EdgesAreCoveringRelation ==
    (/\ pc \in {"labels", "done"}
     /\ graph.engine = "next_closure"
     /\ Len(graph.list) >= 2)
        => /\ EdgeSet(graph.edges) = CoveringPairs(context, graph.list)
           /\ NoDuplicates(graph.edges)

\* C23: for a complete concept list in the emission order of either engine
\* with at least two concepts, the last list element is the concept with
\* intent M, every index of the list is an endpoint of a recorded edge, and
\* the labels find their nodes (from_concepts returns a graph).
C23_EveryConceptReached ==
    (Len(graph.list) >= 2)
        => /\ At(graph.list, Len(graph.list) - 1)[2] = Range(NumAttributes(context))
           /\ pc \in {"labels", "done"} => LaidOut(graph.edges) = Range(Len(graph.list))
           /\ pc = "done" => IsSome(graph.result)

----------------------------------------------------------------------------
\* Properties of the two iterators driven to their end

\* The slots fcbo_next_concept may still look up in a dead-end map.
SlotsFrom(c, inner_index) == {j \in Range(NumAttributes(c)) : j >= inner_index}

\* The closure of fcbo_concepts is about to return None.
FcboAtEnd ==
    /\ ~fcbo.first_concept
    /\ fcbo.returned.tag # "Panic"
    /\ FcboOutput(context, fcbo).type = "NodeCleared"
    /\ Len(fcbo.queue) = 0

\* Both iterators signal end after finitely many steps.
IteratorsEnd ==
    /\ (pc.engine = "fcbo") ~> (fcbo.returned = NONE)
    /\ (pc.engine = "nc") ~> (nc.returned = NONE)

\* fcbo_concepts returns None exactly when its queue is empty and the
\* current node is cleared.
FcboEndsOnEmptyQueue ==
    [][fcbo' # fcbo \/ pc' # pc
          => ((pc.engine = "fcbo" /\ fcbo'.returned = NONE) <=> (pc.engine = "fcbo" /\ FcboAtEnd))]_vars

\* The entry popped by the NodeCleared arm carries a dead-end map with an
\* entry for every slot from its inner_index on.
PoppedCarriesMap ==
    [][Len(fcbo'.queue) < Len(fcbo.queue)
          => /\ fcbo'.returned.tag # "Panic"
             /\ fcbo'.inner_index = Head(fcbo.queue).inner_index
             /\ SlotsFrom(context, fcbo'.inner_index) \subseteq DOMAIN fcbo'.dead_end_attr_set]_vars

\* After None every call returns None again and emits nothing.
EndIsSticky ==
    [][/\ fcbo.returned = NONE => fcbo'.returned = NONE /\ fcbo'.emitted = fcbo.emitted
       /\ nc.returned = NONE => nc'.returned = NONE /\ nc'.emitted = nc.emitted]_vars

\* C25: on every finite context both iterators signal end after finitely
\* many steps; fcbo_concepts signals end exactly when its queue is empty and
\* the current node is cleared; every entry popped from the queue carries a
\* dead-end map with an entry for each slot j >= its inner_index; once end
\* has been signalled, every later call signals end again and emits nothing.
C25_IteratorsEndAndStayEnded ==
    /\ IteratorsEnd
    /\ FcboEndsOnEmptyQueue
    /\ PoppedCarriesMap
    /\ EndIsSticky

\* An fcbo_concepts that popped an entry with a truncated dead-end map, was
\* driven to its end and was called again after it.
C25_Witness ==
    /\ pc.engine = "fcbo"
    /\ pc.ends >= 2
    /\ fcbo.returned = NONE
    /\ DOMAIN fcbo.dead_end_attr_set # Range(NumAttributes(context))
    /\ Len(fcbo.emitted) >= 3

====
